---------------------------- MODULE Spec2Model ----------------------------
(***************************************************************************)
(* A model of the real-estate portfolio dashboard: the sheet-row           *)
(* normaliser, the column resolver, numeric coercion, the portfolio        *)
(* summary, the renewal alerts, the static unit-detail routing table and   *)
(* the two page views that fetch the published Google Sheet.               *)
(*                                                                         *)
(* Text.  A JavaScript string is a sequence of one-character tokens.  An   *)
(* ASCII character is its own token; a Hangul syllable is written as its   *)
(* romanisation (the lexer accepts no Hangul in a string literal):         *)
(*   합 "hap"   계 "gye"   현 "hyeon"  장 "jang"  호 "ho"   실 "sil"         *)
(*   명 "myeong" 의 "ui"   원 "won"    년 "nyeon" 월 "wol"  일 "il"          *)
(*   대 "dae"   출 "chul"  금 "geum"   이 "i_"    율 "yul"  리 "ri"          *)
(* Tokens of the routing table's titles are listed with the table.         *)
(*                                                                         *)
(* Values.  A sheet cell (string | number | boolean | null) is a tagged    *)
(* record.  A finite number is the exact rational num/den in lowest terms; *)
(* IEEE-754 rounding and the sign of zero are outside the model.           *)
(***************************************************************************)
EXTENDS Integers, Sequences, FiniteSets, TLC

VARIABLES
    ran,             \* the operations that have acted (each acts once per run)
    rawValue,        \* numeric coercion: the cell value handed in
    parsedValue,     \* numeric coercion: parseNumericValue's result
    toNumberValue,   \* numeric coercion: toNumber's result
    columns,         \* column resolver: the labels, in column order
    keys,            \* column resolver: the candidate keywords, in order
    likelyColumn,    \* column resolver: findLikelyColumn's result
    rows,            \* PortfolioPage: the fetched sheet rows (useState rows)
    units,           \* PortfolioPage: toPortfolioUnits(rows) (useMemo units)
    summary,         \* PortfolioPage: summarizePortfolio(units) (useMemo summary)
    now,             \* the clock: new Date(), as [day, ms] of local time
    renewalAlerts,   \* PortfolioPage: buildRenewalAlerts(units) (useMemo)
    routes,          \* unitDetailRoutes: the UNIT_DETAIL_ROUTES array
    site,            \* unitDetailRoutes: the site name looked up
    routeBySite,     \* unitDetailRoutes: getUnitDetailBySite's result
    slug,            \* unitDetailRoutes: the slug looked up
    routeBySlug,     \* unitDetailRoutes: getUnitDetailBySlug's result
    page,            \* the page the router has mounted: PortfolioPage or UnitDetailPage
    env,             \* import.meta.env.VITE_GOOGLE_SHEET_ID
    loading,         \* the mounted page: useState loading
    error,           \* the mounted page: useState error
    table,           \* UnitDetailPage: useState table
    unitSlug,        \* UnitDetailPage: useParams().unitSlug
    unit,            \* UnitDetailPage: getUnitDetailBySlug(unitSlug) (useMemo unit)
    inflight,        \* the load operations awaiting their fetch
    issued,          \* the number of load operations started
    settled,         \* the load operation that resumed last, and what it was answered
    rejections,      \* the load operations whose promise rejected
    anchor,          \* detail extractor: findCellByKeyword's result
    numericAt,       \* detail extractor: a getNumericAt call and its result
    numericBelow,    \* detail extractor: getNumericBelow's result
    registration,    \* detail extractor: getRegistrationHeuristic's result
    detail,          \* UnitDetailPage: parseDetail(table)
    unitRows,        \* PortfolioPage: the derived figures of each table row
    fieldColumns     \* toPortfolioUnits: the column resolved for each field

vars == <<ran, rawValue, parsedValue, toNumberValue, columns, keys,
          likelyColumn, rows, units, summary, now, renewalAlerts, routes,
          site, routeBySite, slug, routeBySlug, page, env, loading, error,
          table, unitSlug, unit, inflight, issued, settled, rejections,
          anchor, numericAt, numericBelow, registration, detail, unitRows,
          fieldColumns>>

\* A result nothing has computed yet, or a variable of a component that is
\* not part of the specification being checked.
Unset == [t |-> "unset"]

\* Every variable outside `used` has not run.
IdleExcept(used) ==
    /\ IF "rawValue" \in used THEN TRUE ELSE rawValue = Unset
    /\ IF "parsedValue" \in used THEN TRUE ELSE parsedValue = Unset
    /\ IF "toNumberValue" \in used THEN TRUE ELSE toNumberValue = Unset
    /\ IF "columns" \in used THEN TRUE ELSE columns = Unset
    /\ IF "keys" \in used THEN TRUE ELSE keys = Unset
    /\ IF "likelyColumn" \in used THEN TRUE ELSE likelyColumn = Unset
    /\ IF "rows" \in used THEN TRUE ELSE rows = Unset
    /\ IF "units" \in used THEN TRUE ELSE units = Unset
    /\ IF "summary" \in used THEN TRUE ELSE summary = Unset
    /\ IF "now" \in used THEN TRUE ELSE now = Unset
    /\ IF "renewalAlerts" \in used THEN TRUE ELSE renewalAlerts = Unset
    /\ IF "routes" \in used THEN TRUE ELSE routes = Unset
    /\ IF "site" \in used THEN TRUE ELSE site = Unset
    /\ IF "routeBySite" \in used THEN TRUE ELSE routeBySite = Unset
    /\ IF "slug" \in used THEN TRUE ELSE slug = Unset
    /\ IF "routeBySlug" \in used THEN TRUE ELSE routeBySlug = Unset
    /\ IF "page" \in used THEN TRUE ELSE page = Unset
    /\ IF "env" \in used THEN TRUE ELSE env = Unset
    /\ IF "loading" \in used THEN TRUE ELSE loading = Unset
    /\ IF "error" \in used THEN TRUE ELSE error = Unset
    /\ IF "table" \in used THEN TRUE ELSE table = Unset
    /\ IF "unitSlug" \in used THEN TRUE ELSE unitSlug = Unset
    /\ IF "unit" \in used THEN TRUE ELSE unit = Unset
    /\ IF "inflight" \in used THEN TRUE ELSE inflight = Unset
    /\ IF "issued" \in used THEN TRUE ELSE issued = Unset
    /\ IF "settled" \in used THEN TRUE ELSE settled = Unset
    /\ IF "rejections" \in used THEN TRUE ELSE rejections = Unset
    /\ IF "anchor" \in used THEN TRUE ELSE anchor = Unset
    /\ IF "numericAt" \in used THEN TRUE ELSE numericAt = Unset
    /\ IF "numericBelow" \in used THEN TRUE ELSE numericBelow = Unset
    /\ IF "registration" \in used THEN TRUE ELSE registration = Unset
    /\ IF "detail" \in used THEN TRUE ELSE detail = Unset
    /\ IF "unitRows" \in used THEN TRUE ELSE unitRows = Unset
    /\ IF "fieldColumns" \in used THEN TRUE ELSE fieldColumns = Unset

\* Every variable outside `used` keeps its value.
FrameExcept(used) ==
    /\ IF "rawValue" \in used THEN TRUE ELSE UNCHANGED rawValue
    /\ IF "parsedValue" \in used THEN TRUE ELSE UNCHANGED parsedValue
    /\ IF "toNumberValue" \in used THEN TRUE ELSE UNCHANGED toNumberValue
    /\ IF "columns" \in used THEN TRUE ELSE UNCHANGED columns
    /\ IF "keys" \in used THEN TRUE ELSE UNCHANGED keys
    /\ IF "likelyColumn" \in used THEN TRUE ELSE UNCHANGED likelyColumn
    /\ IF "rows" \in used THEN TRUE ELSE UNCHANGED rows
    /\ IF "units" \in used THEN TRUE ELSE UNCHANGED units
    /\ IF "summary" \in used THEN TRUE ELSE UNCHANGED summary
    /\ IF "now" \in used THEN TRUE ELSE UNCHANGED now
    /\ IF "renewalAlerts" \in used THEN TRUE ELSE UNCHANGED renewalAlerts
    /\ IF "routes" \in used THEN TRUE ELSE UNCHANGED routes
    /\ IF "site" \in used THEN TRUE ELSE UNCHANGED site
    /\ IF "routeBySite" \in used THEN TRUE ELSE UNCHANGED routeBySite
    /\ IF "slug" \in used THEN TRUE ELSE UNCHANGED slug
    /\ IF "routeBySlug" \in used THEN TRUE ELSE UNCHANGED routeBySlug
    /\ IF "page" \in used THEN TRUE ELSE UNCHANGED page
    /\ IF "env" \in used THEN TRUE ELSE UNCHANGED env
    /\ IF "loading" \in used THEN TRUE ELSE UNCHANGED loading
    /\ IF "error" \in used THEN TRUE ELSE UNCHANGED error
    /\ IF "table" \in used THEN TRUE ELSE UNCHANGED table
    /\ IF "unitSlug" \in used THEN TRUE ELSE UNCHANGED unitSlug
    /\ IF "unit" \in used THEN TRUE ELSE UNCHANGED unit
    /\ IF "inflight" \in used THEN TRUE ELSE UNCHANGED inflight
    /\ IF "issued" \in used THEN TRUE ELSE UNCHANGED issued
    /\ IF "settled" \in used THEN TRUE ELSE UNCHANGED settled
    /\ IF "rejections" \in used THEN TRUE ELSE UNCHANGED rejections
    /\ IF "anchor" \in used THEN TRUE ELSE UNCHANGED anchor
    /\ IF "numericAt" \in used THEN TRUE ELSE UNCHANGED numericAt
    /\ IF "numericBelow" \in used THEN TRUE ELSE UNCHANGED numericBelow
    /\ IF "registration" \in used THEN TRUE ELSE UNCHANGED registration
    /\ IF "detail" \in used THEN TRUE ELSE UNCHANGED detail
    /\ IF "unitRows" \in used THEN TRUE ELSE UNCHANGED unitRows
    /\ IF "fieldColumns" \in used THEN TRUE ELSE UNCHANGED fieldColumns

----------------------------------------------------------------------------
(* Values *)

Null == [t |-> "null"]
Str(s) == [t |-> "str", s |-> s]
Bool(b) == [t |-> "bool", b |-> b]
\* A finite number num/den, den > 0.
Frac(n, d) == [t |-> "num", fin |-> TRUE, num |-> n, den |-> d]
Num(n) == Frac(n, 1)
\* NaN, Infinity, -Infinity: typeof 'number', not finite.
NonFinite(k) == [t |-> "num", fin |-> FALSE, kind |-> k]

IsNumber(v) == v.t = "num"
IsFinite(v) == v.t = "num" /\ v.fin

Abs(n) == IF n < 0 THEN 0 - n ELSE n

RECURSIVE GCD(_, _)
GCD(a, b) == IF b = 0 THEN a ELSE GCD(b, a % b)

\* The number n/d (d # 0) in lowest terms.
Ratio(n, d) ==
    LET g == GCD(Abs(n), Abs(d))
        s == IF d < 0 THEN 0 - 1 ELSE 1
    IN  Frac(s * (n \div g), s * (d \div g))

\* a + b, a - b, a * b, a / b (b # 0), a > 0 on finite numbers.
Plus(a, b) == Ratio(a.num * b.den + b.num * a.den, a.den * b.den)
Minus(a, b) == Ratio(a.num * b.den - b.num * a.den, a.den * b.den)
Times(a, b) == Ratio(a.num * b.num, a.den * b.den)
Over(a, b) == Ratio(a.num * b.den, a.den * b.num)
Positive(a) == a.num > 0

----------------------------------------------------------------------------
(* Characters and strings *)

Digits == {"0", "1", "2", "3", "4", "5", "6", "7", "8", "9"}

DigitValue(c) ==
    CASE c = "0" -> 0 [] c = "1" -> 1 [] c = "2" -> 2 [] c = "3" -> 3
      [] c = "4" -> 4 [] c = "5" -> 5 [] c = "6" -> 6 [] c = "7" -> 7
      [] c = "8" -> 8 [] c = "9" -> 9

IsDigit(c) == c \in Digits

\* /\s/ : the white-space characters that occur in the model.
WhiteSpace == {" ", "TAB"}

RECURSIVE Pow10(_)
Pow10(k) == IF k = 0 THEN 1 ELSE 10 * Pow10(k - 1)

\* The decimal value of a sequence of digits (0 for the empty sequence).
RECURSIVE DigitsValue(_)
DigitsValue(ds) ==
    IF ds = <<>> THEN 0
    ELSE 10 * DigitsValue(SubSeq(ds, 1, Len(ds) - 1)) + DigitValue(ds[Len(ds)])

Min(S) == CHOOSE x \in S : \A y \in S : x <= y

\* All sequences over S of length 0..n.
SeqsUpTo(S, n) == UNION {[1..k -> S] : k \in 0..n}

\* String.prototype.includes
Includes(s, t) ==
    \E i \in 0..(Len(s) - Len(t)) : SubSeq(s, i + 1, i + Len(t)) = t

----------------------------------------------------------------------------
(* Numeric coercion: parseNumericValue (PortfolioPage) and toNumber        *)
(* (UnitDetailPage).                                                       *)

\* value.replace(/[^\d.-]/g, '')
StripNonNumeric(s) == SelectSeq(s, LAMBDA c : IsDigit(c) \/ c = "." \/ c = "-")


\* Number(s) for a string s of digits, '.' and '-' only (what is left after
\* the strip): StrDecimalLiteral is an optional sign, then digits with at
\* most one '.', at least one digit in all; anything else is NaN.
NumberOf(s) ==
    LET neg  == s # <<>> /\ s[1] = "-"
        body == IF neg THEN Tail(s) ELSE s
        dots == {i \in 1..Len(body) : body[i] = "."}
        ok   == /\ \A i \in 1..Len(body) : body[i] # "-"
                /\ Cardinality(dots) <= 1
                /\ \E i \in 1..Len(body) : IsDigit(body[i])
        dot  == IF dots = {} THEN Len(body) + 1 ELSE CHOOSE i \in dots : TRUE
        int  == SubSeq(body, 1, dot - 1)
        frac == SubSeq(body, dot + 1, Len(body))
        mag  == DigitsValue(int \o frac)
    IN  IF s = <<>> THEN Num(0)
        ELSE IF ~ok THEN NonFinite("NaN")
        ELSE Ratio(IF neg THEN 0 - mag ELSE mag, Pow10(Len(frac)))

\* parseNumericValue without the empty-string guard: Number('') is 0.
parseNumericValue_NoEmptyGuard(value) ==
    IF value.t = "num" THEN (IF IsFinite(value) THEN value ELSE Null)
    ELSE IF value.t # "str" THEN Null
    ELSE LET parsed == NumberOf(StripNonNumeric(value.s))
         IN  IF IsFinite(parsed) THEN parsed ELSE Null

parseNumericValue(value) ==
    IF value.t = "num" THEN (IF IsFinite(value) THEN value ELSE Null)
    ELSE IF value.t # "str" THEN Null
    ELSE LET normalized == StripNonNumeric(value.s)
             parsed     == NumberOf(normalized)
         IN  IF normalized = <<>> THEN Null
             ELSE IF IsFinite(parsed) THEN parsed ELSE Null

toNumber(value) ==
    IF value.t = "num" THEN (IF IsFinite(value) THEN value ELSE Null)
    ELSE IF value.t # "str" THEN Null
    ELSE LET normalized == StripNonNumeric(value.s)
             parsed     == NumberOf(normalized)
         IN  IF normalized = <<>> THEN Null
             ELSE IF IsFinite(parsed) THEN parsed ELSE Null


----------------------------------------------------------------------------
(* Specification SpecNumeric: a cell value is handed to each coercion.     *)

\* Longest enumerated cell string.
MaxNumLen == 3

NumAlphabet == {"0", "1", ".", "-", ","}

\* "1,234,500원" and "12.5%"
KrwExample == <<"1", ",", "2", "3", "4", ",", "5", "0", "0", "won">>
PercentExample == <<"1", "2", ".", "5", "%">>

NumericInputs ==
    {Str(s) : s \in SeqsUpTo(NumAlphabet, MaxNumLen)}
        \cup {Str(KrwExample), Str(PercentExample), Str(<<" ", "won">>)}
        \cup {Num(0), Num(7), Ratio(0 - 35, 1000), NonFinite("NaN"),
              NonFinite("Infinity"), Bool(TRUE), Bool(FALSE), Null}

NumericVars == {"rawValue", "parsedValue", "toNumberValue"}

NumericInit ==
    /\ rawValue \in NumericInputs
    /\ parsedValue = Unset
    /\ toNumberValue = Unset
    /\ ran = {}
    /\ IdleExcept(NumericVars)

ParseNumericValue ==
    /\ "parseNumericValue" \notin ran
    /\ ran' = ran \cup {"parseNumericValue"}
    /\ parsedValue' = parseNumericValue(rawValue)
    /\ UNCHANGED <<rawValue, toNumberValue>>
    /\ FrameExcept(NumericVars)

ToNumber ==
    /\ "toNumber" \notin ran
    /\ ran' = ran \cup {"toNumber"}
    /\ toNumberValue' = toNumber(rawValue)
    /\ UNCHANGED <<rawValue, parsedValue>>
    /\ FrameExcept(NumericVars)

NumericNext == ParseNumericValue \/ ToNumber

SpecNumeric == NumericInit /\ [][NumericNext]_vars

\* The characters the claim says survive the strip.
KeptChars(s) == SelectSeq(s, LAMBDA c : c \in Digits \cup {".", "-"})

\* k reads as a decimal numeral: an optional leading '-', then digits with an
\* optional single '.' among them, at least one digit.
NumeralShape(k) ==
    LET u == IF k # <<>> /\ k[1] = "-" THEN Tail(k) ELSE k
    IN  \E p \in 0..Len(u) :
            /\ \A i \in 1..p : IsDigit(u[i])
            /\ \/ p = Len(u) /\ p >= 1
               \/ /\ p < Len(u)
                  /\ u[p + 1] = "."
                  /\ Len(u) >= 2
                  /\ \A i \in (p + 2)..Len(u) : IsDigit(u[i])

\* The number of digits after the '.' of a numeral (0 without one).
FractionDigits(k) ==
    IF \E i \in 1..Len(k) : k[i] = "."
    THEN Len(k) - (CHOOSE i \in 1..Len(k) : k[i] = ".")
    ELSE 0

\* r is what the claim says the coercion of raw gives.
CoercedAsClaimed(raw, r) ==
    /\ r = Null \/ IsFinite(r)
    /\ IsFinite(raw) => r = raw
    /\ (raw.t = "num" /\ ~IsFinite(raw)) => r = Null
    /\ raw.t \notin {"num", "str"} => r = Null
    /\ raw.t = "str" =>
          LET k      == KeptChars(raw.s)
              digits == SelectSeq(k, IsDigit)
              sign   == IF k # <<>> /\ k[1] = "-" THEN 0 - 1 ELSE 1
          IN  /\ k = <<>> => r = Null
              /\ k = <<"-">> => r = Null
              /\ (r = Null) <=> ~NumeralShape(k)
              /\ r # Null =>
                    r.num * Pow10(FractionDigits(k)) = sign * DigitsValue(digits) * r.den
    /\ raw = Str(KrwExample) => r = Num(1234500)
    /\ raw = Str(PercentExample) => r = Ratio(125, 10)

\* C3: numeric coercion (parseNumericValue and toNumber alike) returns a finite
\* number unchanged; strips a string of every character but digits, '.' and
\* '-' and parses the rest ("1,234,500원" gives 1234500, "12.5%" gives 12.5);
\* and gives null, never 0 nor an error, for an empty strip, for a strip that
\* is no finite number ("-"), and for every non-number non-string input.
C3_NumericCoercion ==
    /\ "parseNumericValue" \in ran => CoercedAsClaimed(rawValue, parsedValue)
    /\ "toNumber" \in ran => CoercedAsClaimed(rawValue, toNumberValue)

C3_Witness ==
    /\ ran = {"parseNumericValue", "toNumber"}
    /\ rawValue = Str(KrwExample)
    /\ parsedValue = Num(1234500)
    /\ toNumberValue = Num(1234500)

----------------------------------------------------------------------------
(* Column resolver: findLikelyColumn.                                      *)

UpperCase == <<"A", "B", "C", "D", "E", "F", "G", "H", "I", "J", "K", "L", "M",
               "N", "O", "P", "Q", "R", "S", "T", "U", "V", "W", "X", "Y", "Z">>
LowerCase == <<"a", "b", "c", "d", "e", "f", "g", "h", "i", "j", "k", "l", "m",
               "n", "o", "p", "q", "r", "s", "t", "u", "v", "w", "x", "y", "z">>

\* String.prototype.toLowerCase: Hangul, digits and punctuation have no case.
LowerChar(c) ==
    IF \E i \in 1..26 : UpperCase[i] = c
    THEN LowerCase[CHOOSE i \in 1..26 : UpperCase[i] = c]
    ELSE c

toLowerCase(s) == [i \in 1..Len(s) |-> LowerChar(s[i])]

\* findLikelyColumn that looks for the column matching most candidates
\* first (the first column containing any candidate).
findLikelyColumn_ColumnFirst(cols, ks) ==
    LET hit == {i \in 1..Len(cols) :
                    \E j \in 1..Len(ks) : Includes(toLowerCase(cols[i]), ks[j])}
    IN  IF hit = {} THEN <<>> ELSE cols[Min(hit)]

findLikelyColumn(cols, ks) ==
    LET lowered == [i \in 1..Len(cols) |->
                        [original |-> cols[i], lowered |-> toLowerCase(cols[i])]]
        \* lowered.find((column) => column.lowered.includes(key))
        found(key) == {i \in 1..Len(cols) : Includes(lowered[i].lowered, key)}
        hits == {j \in 1..Len(ks) : found(ks[j]) # {}}
    IN  IF hits = {} THEN <<>>
        ELSE lowered[Min(found(ks[Min(hits)]))].original

----------------------------------------------------------------------------
(* Specification SpecColumns: findLikelyColumn over a label list and a     *)
(* candidate list.                                                         *)

\* Most labels in a header, most candidates of a field.
MaxColumns == 3
MaxKeys == 2

\* 호실명, 명의, "Site", "현장 호실", "sites"
LabelHosilmyeong == <<"ho", "sil", "myeong">>
LabelMyeongui == <<"myeong", "ui">>
LabelPool ==
    {LabelHosilmyeong, LabelMyeongui, <<"S", "i", "t", "e">>,
     <<"hyeon", "jang", " ", "ho", "sil">>, <<"s", "i", "t", "e", "s">>}

\* 현장, 호실, "site", and "Site" (a candidate is compared as written)
KeyHyeonjang == <<"hyeon", "jang">>
KeyHosil == <<"ho", "sil">>
KeySite == <<"s", "i", "t", "e">>
KeyPool == {KeyHyeonjang, KeyHosil, KeySite, <<"S", "i", "t", "e">>}

SiteKeys == <<KeyHyeonjang, KeyHosil, KeySite>>

ColumnsVars == {"columns", "keys", "likelyColumn"}

ColumnsInit ==
    /\ columns \in SeqsUpTo(LabelPool, MaxColumns)
    /\ keys \in SeqsUpTo(KeyPool, MaxKeys) \cup {SiteKeys}
    /\ likelyColumn = Unset
    /\ ran = {}
    /\ IdleExcept(ColumnsVars)

FindLikelyColumn ==
    /\ "findLikelyColumn" \notin ran
    /\ ran' = ran \cup {"findLikelyColumn"}
    /\ likelyColumn' = findLikelyColumn(columns, keys)
    /\ UNCHANGED <<columns, keys>>
    /\ FrameExcept(ColumnsVars)

ColumnsNext == FindLikelyColumn

SpecColumns == ColumnsInit /\ [][ColumnsNext]_vars

\* Label i contains candidate j once the label is lowercased.
LabelHasKey(i, j) == Includes(toLowerCase(columns[i]), keys[j])

\* C2: findLikelyColumn returns the first label, in column order, that
\* contains (lowercased) the earliest candidate matching any label at all; a
\* later candidate is never preferred over an earlier matching one, however
\* many columns it matches; the result is empty when no candidate matches;
\* candidates [현장, 호실, site] over labels [호실명, 명의] give 호실명.
C2_FindLikelyColumn ==
    "findLikelyColumn" \in ran =>
        /\ (\A j \in 1..Len(keys) : \A i \in 1..Len(columns) : ~LabelHasKey(i, j))
              => likelyColumn = <<>>
        /\ \A j \in 1..Len(keys) :
              ((\E i \in 1..Len(columns) : LabelHasKey(i, j))
                    /\ \A j2 \in 1..(j - 1) : \A i \in 1..Len(columns) : ~LabelHasKey(i, j2))
              => \E i \in 1..Len(columns) :
                    /\ LabelHasKey(i, j)
                    /\ \A i2 \in 1..(i - 1) : ~LabelHasKey(i2, j)
                    /\ likelyColumn = columns[i]
        /\ (keys = SiteKeys /\ columns = <<LabelHosilmyeong, LabelMyeongui>>)
              => likelyColumn = LabelHosilmyeong

\* An earlier candidate matches one column, a later one matches more columns,
\* one of them before it; the earlier candidate's column is returned.
C2_Witness ==
    /\ "findLikelyColumn" \in ran
    /\ Len(keys) = 2
    /\ Cardinality({i \in 1..Len(columns) : LabelHasKey(i, 1)}) = 1
    /\ Cardinality({i \in 1..Len(columns) : LabelHasKey(i, 2)}) = 2
    /\ LabelHasKey(1, 2) /\ ~LabelHasKey(1, 1)
    /\ likelyColumn = columns[Min({i \in 1..Len(columns) : LabelHasKey(i, 1)})]

----------------------------------------------------------------------------
(* Row normaliser: toPortfolioUnits.                                       *)
(*                                                                         *)
(* A SheetRow (Record<string, value>) is the sequence of its entries       *)
(* [k |-> header, v |-> value] in insertion order, the keys distinct.      *)
(* More syllables:                                                         *)
(*   준 "jun"  공 "gong"  급 "geup"  액 "aek"  매 "mae"  입 "ip"  자 "ja"    *)
(*   세 "se"   임 "im"    료 "ryo"   약 "yak"  갱 "gaeng" 신 "sin" 주 "ju"   *)
(*   여 "yeo"  부 "bu"    비 "bi"    고 "go"   사 "sa"   업 "eop" 등 "deung" *)
(*   록 "rok"  번 "beon"  재 "jae"   산 "san"  건 "geon" 문 "mun" 불 "bul"   *)
(*   토 "to"   지 "ji"    분 "bun"   교 "gyo"  통 "tong" 유 "yu"  발 "bal"   *)
(*   담 "dam"                                                              *)

Undefined == [t |-> "undefined"]

\* Object.keys(row)
ObjectKeys(row) == [i \in 1..Len(row) |-> row[i].k]

\* row[column]
Get(row, column) ==
    IF \E i \in 1..Len(row) : row[i].k = column
    THEN row[CHOOSE i \in 1..Len(row) : row[i].k = column].v
    ELSE Undefined

\* a ?? b
Coalesce(a, b) == IF a = Null \/ a = Undefined THEN b ELSE a

\* The decimal digits of a natural number.
RECURSIVE NatToString(_)
NatToString(n) ==
    LET d == <<"0", "1", "2", "3", "4", "5", "6", "7", "8", "9">>[(n % 10) + 1]
    IN  IF n < 10 THEN <<d>> ELSE Append(NatToString(n \div 10), d)

\* The digits of f, left-padded with zeros to width w.
RECURSIVE PadZeros(_, _)
PadZeros(s, w) == IF Len(s) >= w THEN s ELSE PadZeros(<<"0">> \o s, w)

\* Most decimal places of a number that is written out as text.
MaxPlaces == 6

\* String(value)
String(v) ==
    CASE v.t = "str"  -> v.s
      [] v.t = "bool" -> IF v.b THEN <<"t", "r", "u", "e">> ELSE <<"f", "a", "l", "s", "e">>
      [] v.t = "null" -> <<"n", "u", "l", "l">>
      [] v.t = "undefined" -> <<"u", "n", "d", "e", "f", "i", "n", "e", "d">>
      [] v.t = "num" /\ ~v.fin -> <<v.kind>>
      [] v.t = "num" /\ v.fin ->
            \* a terminating decimal of at most MaxPlaces places
            LET places == Min({k \in 0..MaxPlaces : Pow10(k) % v.den = 0})
                a      == Abs(v.num) * (Pow10(places) \div v.den)
                sign   == IF v.num < 0 THEN <<"-">> ELSE <<>>
                int    == NatToString(a \div Pow10(places))
                frac   == IF places = 0 THEN <<>>
                          ELSE <<".">> \o PadZeros(NatToString(a % Pow10(places)), places)
            IN  sign \o int \o frac

\* value.replace(/\s+/g, '')
RemoveWhiteSpace(s) == SelectSeq(s, LAMBDA c : c \notin WhiteSpace)

\* String.prototype.trim
RECURSIVE trim(_)
trim(s) ==
    IF s = <<>> THEN s
    ELSE IF s[1] \in WhiteSpace THEN trim(Tail(s))
    ELSE IF s[Len(s)] \in WhiteSpace THEN trim(SubSeq(s, 1, Len(s) - 1))
    ELSE s

\* '합계'
Hapgye == <<"hap", "gye">>

\* The candidate keywords of each field.
CompletionKeys == <<<<"jun", "gong", "il">>,
                    <<"c", "o", "m", "p", "l", "e", "t", "i", "o", "n">>>>
SupplyKeys == <<<<"gong", "geup", "geum", "aek">>, <<"mae", "ip">>,
                <<"p", "r", "i", "c", "e">>>>
LoanKeys == <<<<"dae", "chul", "geum">>, <<"l", "o", "a", "n">>>>
RateKeys == <<<<"i_", "yul">>, <<"geum", "ri">>, <<"r", "a", "t", "e">>>>
InterestKeys == <<<<"dae", "chul", "i_", "ja">>,
                  <<"i", "n", "t", "e", "r", "e", "s", "t">>>>
RentKeys == <<<<"wol", "se">>, <<"im", "dae", "ryo">>, <<"r", "e", "n", "t">>>>
ContractRenewalKeys == <<<<"gye", "yak", "gaeng", "sin">>,
                         <<"gye", "yak", " ", "gaeng", "sin">>>>
LoanRenewalKeys == <<<<"dae", "chul", "gaeng", "sin">>,
                     <<"dae", "chul", " ", "gaeng", "sin">>>>
OwnershipKeys == <<<<"myeong", "ui">>>>
TenantKeys == <<<<"sil", "ip", "ju", " ", "yeo", "bu">>, <<"ip", "ju">>, <<"im", "dae">>>>
NoteKeys == <<<<"bi", "go">>, <<"n", "o", "t", "e">>>>
BusinessNumberKeys == <<<<"sa", "eop", "ja", "deung", "rok", "beon", "ho">>>>
BuildingTaxKeys == <<<<"jae", "san", "se">>, <<"geon", "mun", "bul">>>>
LandTaxKeys == <<<<"to", "ji", "bun">>>>
TrafficChargeKeys == <<<<"gyo", "tong", "yu", "bal", "bu", "dam", "geum">>>>

Dash == <<"-">>

\* String(row[column] ?? fallback)
Text(row, column, fallback) == String(Coalesce(Get(row, column), Str(fallback)))

\* The PortfolioUnit built from the index-th surviving row (index from 0).
PortfolioUnit(row, index, cols) ==
    [id                 |-> <<"u", "n", "i", "t", "-">> \o NatToString(index),
     site               |-> Text(row, findLikelyColumn(cols, SiteKeys),
                                 <<"ho", "sil", " ">> \o NatToString(index + 1)),
     ownership          |-> Text(row, findLikelyColumn(cols, OwnershipKeys), Dash),
     tenantStatus       |-> Text(row, findLikelyColumn(cols, TenantKeys), Dash),
     completionDate     |-> Text(row, findLikelyColumn(cols, CompletionKeys), Dash),
     contractRenewalRaw |-> Text(row, findLikelyColumn(cols, ContractRenewalKeys), <<>>),
     loanRenewalRaw     |-> Text(row, findLikelyColumn(cols, LoanRenewalKeys), <<>>),
     note               |-> Text(row, findLikelyColumn(cols, NoteKeys), Dash),
     businessNumber     |-> Text(row, findLikelyColumn(cols, BusinessNumberKeys), Dash),
     supplyPrice        |-> parseNumericValue(Get(row, findLikelyColumn(cols, SupplyKeys))),
     loanAmount         |-> parseNumericValue(Get(row, findLikelyColumn(cols, LoanKeys))),
     interestRate       |-> parseNumericValue(Get(row, findLikelyColumn(cols, RateKeys))),
     monthlyInterest    |-> parseNumericValue(Get(row, findLikelyColumn(cols, InterestKeys))),
     monthlyRent        |-> parseNumericValue(Get(row, findLikelyColumn(cols, RentKeys))),
     buildingTax        |-> parseNumericValue(Get(row, findLikelyColumn(cols, BuildingTaxKeys))),
     landTax            |-> parseNumericValue(Get(row, findLikelyColumn(cols, LandTaxKeys))),
     trafficInducementCharge |->
         parseNumericValue(Get(row, findLikelyColumn(cols, TrafficChargeKeys)))]

\* toPortfolioUnits that keeps the total row (slice(0, sumRowIndex + 1)).
toPortfolioUnits_KeepsTotalRow(rs) ==
    IF rs = <<>> THEN <<>>
    ELSE
    LET cols        == ObjectKeys(rs[1])
        siteColumn  == findLikelyColumn(cols, SiteKeys)
        isSum(row)  == Includes(RemoveWhiteSpace(Text(row, siteColumn, <<>>)), Hapgye)
        \* rows.findIndex(...) as a 1-based index, 0 for -1
        sums        == {i \in 1..Len(rs) : isSum(rs[i])}
        sumRowIndex == IF sums = {} THEN 0 ELSE Min(sums)
        sliced      == IF sumRowIndex >= 1 THEN SubSeq(rs, 1, sumRowIndex) ELSE rs
        hasSite(row) == Len(trim(Text(row, siteColumn, <<>>))) > 0
        sourceRows  == SelectSeq(sliced, hasSite)
    IN  [i \in 1..Len(sourceRows) |-> PortfolioUnit(sourceRows[i], i - 1, cols)]

toPortfolioUnits(rs) ==
    IF rs = <<>> THEN <<>>
    ELSE
    LET cols        == ObjectKeys(rs[1])
        siteColumn  == findLikelyColumn(cols, SiteKeys)
        isSum(row)  == Includes(RemoveWhiteSpace(Text(row, siteColumn, <<>>)), Hapgye)
        \* rows.findIndex(...) as a 1-based index, 0 for -1
        sums        == {i \in 1..Len(rs) : isSum(rs[i])}
        sumRowIndex == IF sums = {} THEN 0 ELSE Min(sums)
        sliced      == IF sumRowIndex >= 1 THEN SubSeq(rs, 1, sumRowIndex - 1) ELSE rs
        hasSite(row) == Len(trim(Text(row, siteColumn, <<>>))) > 0
        sourceRows  == SelectSeq(sliced, hasSite)
    IN  [i \in 1..Len(sourceRows) |-> PortfolioUnit(sourceRows[i], i - 1, cols)]

----------------------------------------------------------------------------
(* Specification SpecUnits: the rows state is normalised into units.       *)

\* Most rows of an enumerated sheet.
MaxRows == 3

\* Headers "현장명", "대출금" (the site column resolves) and "column_1", "대출금"
\* (no label contains a site candidate).
HeaderPool ==
    {<<<<"hyeon", "jang", "myeong">>, <<"dae", "chul", "geum">>>>,
     <<<<"c", "o", "l", "u", "m", "n", "_", "1">>, <<"dae", "chul", "geum">>>>}

\* Cells of the first column: empty, blank, a name, a total row's label
\* (" 합 계B"), a number.
SiteCellPool ==
    {Null, Str(<<>>), Str(<<" ", "TAB">>), Str(<<"A", " ">>),
     Str(<<" ", "hap", " ", "gye", "B">>), Num(7)}

\* The i-th row of a sheet: its first cell, and i * 1000 as its loan amount.
SheetRow(headers, cell, i) ==
    <<[k |-> headers[1], v |-> cell], [k |-> headers[2], v |-> Num(1000 * i)]>>

Sheet(headers, cells) == [i \in 1..Len(cells) |-> SheetRow(headers, cells[i], i)]

\* Five data rows followed by one total row.
FiveAndTotal ==
    Sheet(<<<<"hyeon", "jang", "myeong">>, <<"dae", "chul", "geum">>>>,
          <<Str(<<"A">>), Str(<<"B">>), Str(<<"C">>), Str(<<"D">>), Str(<<"E">>),
            Str(Hapgye)>>)

UnitsVars == {"rows", "units"}

UnitsInit ==
    /\ rows \in {Sheet(h, cells) : h \in HeaderPool,
                                   cells \in SeqsUpTo(SiteCellPool, MaxRows)}
                    \cup {FiveAndTotal}
    /\ units = Unset
    /\ ran = {}
    /\ IdleExcept(UnitsVars)

\* useMemo(() => toPortfolioUnits(rows), [rows])
ToPortfolioUnits ==
    /\ "toPortfolioUnits" \notin ran
    /\ ran' = ran \cup {"toPortfolioUnits"}
    /\ units' = toPortfolioUnits(rows)
    /\ UNCHANGED rows
    /\ FrameExcept(UnitsVars)

UnitsNext == ToPortfolioUnits

SpecUnits == UnitsInit /\ [][UnitsNext]_vars

\* The site field of row i: the text of its cell in the resolved site column.
SiteField(i) ==
    Text(rows[i], findLikelyColumn(ObjectKeys(rows[1]), SiteKeys), <<>>)

\* Row i is a total row: its site field, white space removed, contains 합계.
IsTotalRow(i) == Includes(SelectSeq(SiteField(i), LAMBDA c : c \notin WhiteSpace), Hapgye)

\* The rows the claim keeps: before the first total row, site not blank.
KeptRows ==
    {i \in 1..Len(rows) :
        /\ \A j \in 1..i : ~IsTotalRow(j)
        /\ \E p \in 1..Len(SiteField(i)) : SiteField(i)[p] \notin WhiteSpace}

\* The k-th smallest element of a set of numbers.
KthOf(S, k) == CHOOSE x \in S : Cardinality({y \in S : y < x}) = k - 1

\* C1: the units are exactly the rows strictly before the first row whose
\* site field (white space removed) contains 합계 and whose site field is not
\* empty after trimming, in the original order; no row at or after the first
\* total row is a unit; 5 data rows followed by 1 total row give 5 units.
C1_RowFiltering ==
    "toPortfolioUnits" \in ran =>
        /\ Len(units) = Cardinality(KeptRows)
        /\ \A k \in 1..Len(units) :
              /\ units[k].site = SiteField(KthOf(KeptRows, k))
              /\ units[k].loanAmount = Num(1000 * KthOf(KeptRows, k))
        /\ rows = FiveAndTotal => Len(units) = 5

\* A blank row, then a data row, then a total row: one unit, the data row.
C1_Witness ==
    /\ "toPortfolioUnits" \in ran
    /\ Len(rows) = 3
    /\ KeptRows = {2}
    /\ IsTotalRow(3)
    /\ Len(units) = 1
    /\ units[1].loanAmount = Num(2000)

----------------------------------------------------------------------------
(* Metrics aggregator: summarizePortfolio.                                 *)
(*   운 "un"  영 "yeong"  중 "jung"  실 "sil"                                *)

\* value ?? 0
OrZero(v) == IF v = Null THEN Num(0) ELSE v

\* nums.reduce((acc, n) => acc + n, 0)
RECURSIVE SumOf(_)
SumOf(nums) ==
    IF nums = <<>> THEN Num(0)
    ELSE Plus(SumOf(SubSeq(nums, 1, Len(nums) - 1)), nums[Len(nums)])

\* The three markers of a leased unit: '임대', '입주', '운영'.
LeasedMarkers == {<<"im", "dae">>, <<"ip", "ju">>, <<"un", "yeong">>}

EmptySummary ==
    [totalUnits |-> 0, leasedUnits |-> 0, totalSupplyPrice |-> Num(0),
     totalLoanAmount |-> Num(0), totalEquity |-> Num(0), avgInterestRate |-> Null,
     monthlyRentIncome |-> Num(0), monthlyInterestCost |-> Num(0),
     monthlyNetCashflow |-> Num(0), annualNetCashflow |-> Num(0),
     annualReturnOnEquity |-> Null, loanToValue |-> Null]

\* The summary of a non-empty unit list, given how the equity and the
\* weighted-rate denominator are computed.
SummaryWith(us, totalEquity, weightedRateDenom) ==
    LET totalSupplyPrice == SumOf([i \in 1..Len(us) |-> OrZero(us[i].supplyPrice)])
        totalLoanAmount  == SumOf([i \in 1..Len(us) |-> OrZero(us[i].loanAmount)])
        monthlyRentIncome   == SumOf([i \in 1..Len(us) |-> OrZero(us[i].monthlyRent)])
        monthlyInterestCost == SumOf([i \in 1..Len(us) |-> OrZero(us[i].monthlyInterest)])
        monthlyNetCashflow  == Minus(monthlyRentIncome, monthlyInterestCost)
        annualNetCashflow   == Times(monthlyNetCashflow, Num(12))
        weightedRateBase ==
            SelectSeq(us, LAMBDA u : /\ u.interestRate # Null
                                     /\ u.loanAmount # Null
                                     /\ Positive(u.loanAmount))
        weightedRateNumerator ==
            SumOf([i \in 1..Len(weightedRateBase) |->
                      Times(weightedRateBase[i].loanAmount, weightedRateBase[i].interestRate)])
        leased == {i \in 1..Len(us) :
                      \E m \in LeasedMarkers : Includes(toLowerCase(us[i].tenantStatus), m)}
    IN  [totalUnits |-> Len(us),
         leasedUnits |-> Cardinality(leased),
         totalSupplyPrice |-> totalSupplyPrice,
         totalLoanAmount |-> totalLoanAmount,
         totalEquity |-> totalEquity,
         avgInterestRate |->
             IF Positive(weightedRateDenom)
             THEN Over(weightedRateNumerator, weightedRateDenom) ELSE Null,
         monthlyRentIncome |-> monthlyRentIncome,
         monthlyInterestCost |-> monthlyInterestCost,
         monthlyNetCashflow |-> monthlyNetCashflow,
         annualNetCashflow |-> annualNetCashflow,
         annualReturnOnEquity |->
             IF Positive(totalEquity) THEN Over(annualNetCashflow, totalEquity) ELSE Null,
         loanToValue |->
             IF Positive(totalSupplyPrice)
             THEN Over(totalLoanAmount, totalSupplyPrice) ELSE Null]

\* The equity clamped at zero.
EquityOf_Clamped(us) ==
    LET e == Minus(SumOf([i \in 1..Len(us) |-> OrZero(us[i].supplyPrice)]),
                   SumOf([i \in 1..Len(us) |-> OrZero(us[i].loanAmount)]))
    IN  IF Positive(e) THEN e ELSE Num(0)

\* totalSupplyPrice - totalLoanAmount
EquityOf(us) ==
    Minus(SumOf([i \in 1..Len(us) |-> OrZero(us[i].supplyPrice)]),
          SumOf([i \in 1..Len(us) |-> OrZero(us[i].loanAmount)]))

\* The weighted-rate denominator taken over every unit's loan amount.
WeightedRateDenom_AllLoans(us) ==
    SumOf([i \in 1..Len(us) |-> OrZero(us[i].loanAmount)])

\* weightedRateBase.reduce((acc, unit) => acc + unit.loanAmount, 0)
WeightedRateDenom(us) ==
    LET weightedRateBase ==
            SelectSeq(us, LAMBDA u : /\ u.interestRate # Null
                                     /\ u.loanAmount # Null
                                     /\ Positive(u.loanAmount))
    IN  SumOf([i \in 1..Len(weightedRateBase) |-> weightedRateBase[i].loanAmount])

summarizePortfolio(us) ==
    IF Len(us) = 0 THEN EmptySummary
    ELSE SummaryWith(us, EquityOf(us), WeightedRateDenom(us))

----------------------------------------------------------------------------
(* Specification SpecSummary: a unit list is summarised.                   *)

\* Most units of an enumerated portfolio.
MaxUnits == 3

\* A unit with the given figures; the text fields the summary does not read
\* are as toPortfolioUnits leaves them for absent columns.
UnitWith(supply, loan, rate, rent, interest, status) ==
    [id |-> <<"u", "n", "i", "t", "-", "0">>, site |-> <<"A">>,
     ownership |-> Dash, tenantStatus |-> status, completionDate |-> Dash,
     contractRenewalRaw |-> <<>>, loanRenewalRaw |-> <<>>, note |-> Dash,
     businessNumber |-> Dash,
     supplyPrice |-> supply, loanAmount |-> loan, interestRate |-> rate,
     monthlyInterest |-> interest, monthlyRent |-> rent,
     buildingTax |-> Null, landTax |-> Null, trafficInducementCharge |-> Null]

\* '임대중' and '공실'
StatusLeased == <<"im", "dae", "jung">>
StatusVacant == <<"gong", "sil">>

\* Loan 1000 at 0.03 and loan 2000 at 0.05.
UnitA == UnitWith(Num(3000), Num(1000), Ratio(3, 100), Num(100), Num(20), StatusLeased)
UnitB == UnitWith(Num(5000), Num(2000), Ratio(5, 100), Num(200), Num(80), StatusLeased)

SummaryUnitPool ==
    {UnitA, UnitB,
     \* a loan of 0, no interest figure
     UnitWith(Num(2000), Num(0), Ratio(4, 100), Num(50), Null, StatusVacant),
     \* no loan amount and no supply price
     UnitWith(Null, Null, Ratio(2, 100), Null, Num(10), Dash),
     \* no rate; the loan exceeds the supply price
     UnitWith(Num(1000), Num(4000), Null, Num(30), Num(90), StatusLeased),
     \* the loan equals the supply price
     UnitWith(Num(1000), Num(1000), Ratio(3, 100), Null, Null, StatusVacant),
     \* a negative loan amount, a fractional rent
     UnitWith(Null, Num(0 - 500), Ratio(1, 100), Ratio(25, 2), Null, Dash),
     \* no rate on a positive loan
     UnitWith(Num(6000), Num(3000), Null, Num(300), Num(100), StatusLeased)}

SummaryVars == {"units", "summary"}

SummaryInit ==
    /\ units \in SeqsUpTo(SummaryUnitPool, MaxUnits)
    /\ summary = Unset
    /\ ran = {}
    /\ IdleExcept(SummaryVars)

\* useMemo(() => summarizePortfolio(units), [units])
SummarizePortfolio ==
    /\ "summarizePortfolio" \notin ran
    /\ ran' = ran \cup {"summarizePortfolio"}
    /\ summary' = summarizePortfolio(units)
    /\ UNCHANGED units
    /\ FrameExcept(SummaryVars)

SummaryNext == SummarizePortfolio

SpecSummary == SummaryInit /\ [][SummaryNext]_vars

\* The sum of f[i] over the indices i in S.
RECURSIVE SumOver(_, _)
SumOver(S, f) ==
    IF S = {} THEN Num(0)
    ELSE LET i == CHOOSE x \in S : TRUE IN Plus(f[i], SumOver(S \ {i}, f))

\* The units that count in the weighted average: rate and loan amount known,
\* loan amount above 0.
Qualifying ==
    {i \in 1..Len(units) :
        /\ units[i].interestRate # Null
        /\ units[i].loanAmount # Null
        /\ units[i].loanAmount.num > 0}

AllUnits == 1..Len(units)

\* C4: avgInterestRate is sum(loanAmount * interestRate) / sum(loanAmount) over
\* the units with a rate and a loan amount above 0 only, and null exactly when
\* no unit qualifies; the excluded units still count in totalUnits and in the
\* plain sums; loans [1000, 2000] at rates [0.03, 0.05] average 130/3000.
C4_WeightedAverageRate ==
    "summarizePortfolio" \in ran =>
        /\ (summary.avgInterestRate = Null) <=> (Qualifying = {})
        /\ Qualifying # {} =>
              summary.avgInterestRate =
                  Over(SumOver(Qualifying,
                               [i \in Qualifying |->
                                   Times(units[i].loanAmount, units[i].interestRate)]),
                       SumOver(Qualifying, [i \in Qualifying |-> units[i].loanAmount]))
        /\ summary.totalUnits = Len(units)
        /\ summary.totalLoanAmount =
              SumOver(AllUnits, [i \in AllUnits |-> OrZero(units[i].loanAmount)])
        /\ summary.totalSupplyPrice =
              SumOver(AllUnits, [i \in AllUnits |-> OrZero(units[i].supplyPrice)])
        /\ units = <<UnitA, UnitB>> => summary.avgInterestRate = Ratio(130, 3000)

\* One unit qualifies and one (a positive loan without a rate) does not: the
\* average is the qualifying unit's rate, the loan total counts both.
C4_Witness ==
    /\ "summarizePortfolio" \in ran
    /\ Len(units) = 2
    /\ Qualifying = {1}
    /\ units[2].interestRate = Null /\ units[2].loanAmount = Num(3000)
    /\ summary.avgInterestRate = units[1].interestRate
    /\ summary.totalLoanAmount = Plus(units[1].loanAmount, Num(3000))
    /\ summary.totalUnits = 2

\* C5: totalEquity is totalSupplyPrice - totalLoanAmount (null as 0), never
\* clamped, so it can be negative; annualReturnOnEquity is
\* (monthlyRentIncome - monthlyInterestCost) * 12 / totalEquity when
\* totalEquity > 0 and null whenever totalEquity <= 0, the empty list included.
C5_EquityAndRoe ==
    "summarizePortfolio" \in ran =>
        LET supply == SumOver(AllUnits, [i \in AllUnits |-> OrZero(units[i].supplyPrice)])
            loan   == SumOver(AllUnits, [i \in AllUnits |-> OrZero(units[i].loanAmount)])
            rent   == SumOver(AllUnits, [i \in AllUnits |-> OrZero(units[i].monthlyRent)])
            cost   == SumOver(AllUnits, [i \in AllUnits |-> OrZero(units[i].monthlyInterest)])
            equity == Minus(supply, loan)
        IN  /\ summary.totalEquity = equity
            /\ equity.num > 0 =>
                  summary.annualReturnOnEquity =
                      Over(Times(Minus(rent, cost), Num(12)), equity)
            /\ equity.num <= 0 => summary.annualReturnOnEquity = Null
            /\ units = <<>> => summary.annualReturnOnEquity = Null

\* A portfolio whose loans exceed its supply prices: negative equity, no ROE.
C5_Witness ==
    /\ "summarizePortfolio" \in ran
    /\ Len(units) = 2
    /\ summary.totalEquity.num < 0
    /\ summary.annualReturnOnEquity = Null
    /\ summary.monthlyNetCashflow.num > 0

----------------------------------------------------------------------------
(* Renewal scheduler: parseKoreanDate, calculateDaysLeft,                  *)
(* buildRenewalAlerts.                                                     *)
(*                                                                         *)
(* A Date built by new Date(y, m, d) is a local midnight and is the number *)
(* of its local day (days since 1970-01-01); the clock is a local day and  *)
(* the milliseconds elapsed in it.  getTime() of a local midnight is       *)
(* day * MsPerDay up to the offset of the local zone, which is fixed (the  *)
(* zone of the model has no daylight-saving shift, as Asia/Seoul) and      *)
(* cancels in the difference calculateDaysLeft takes, so that              *)
(* Math.floor(diffMs / MsPerDay) is the difference of the two day numbers. *)

MsPerDay == 86400000

\* The civil date (y, m, d), m in 1..12, as a day number.
DaysFromCivil(y, m, d) ==
    LET yy  == IF m <= 2 THEN y - 1 ELSE y
        era == yy \div 400
        yoe == yy - era * 400
        mp  == IF m > 2 THEN m - 3 ELSE m + 9
        doy == (153 * mp + 2) \div 5 + d - 1
        doe == yoe * 365 + yoe \div 4 - yoe \div 100 + doy
    IN  era * 146097 + doe - 719468

\* new Date(year, monthIndex, day) for year >= 100: MakeDay carries a month
\* index outside 0..11 into the year and a day outside the month into the
\* neighbouring months; the result is a valid Date for every finite argument
\* in range.
NewDate(year, monthIndex, day) ==
    LET ym == year + (monthIndex \div 12)
        mn == monthIndex % 12
    IN  DaysFromCivil(ym, mn + 1, 1) + (day - 1)

\* s cut into its maximal runs of digits and of non-digits, in order.
RECURSIVE Runs(_)
Runs(s) ==
    IF s = <<>> THEN <<>>
    ELSE LET init == Runs(SubSeq(s, 1, Len(s) - 1))
             c    == s[Len(s)]
         IN  IF init # <<>> /\ IsDigit(init[Len(init)][1]) = IsDigit(c)
             THEN [init EXCEPT ![Len(init)] = Append(@, c)]
             ELSE Append(init, <<c>>)

\* raw.match(/(\d{2,4})\D+(\d{1,2})\D+(\d{1,2})/).  The quantifiers are
\* greedy and each group is followed by a class that excludes its own
\* characters, so a match is five consecutive runs: digits (the year is the
\* last 2..4 of them: the leftmost start from which at most 4 digits remain),
\* non-digits, a whole run of 1..2 digits (the month), non-digits, digits
\* (the day is the first one or two).  The leftmost match is the one at the
\* first such run.
MatchesAt(runs, k) ==
    /\ k + 4 <= Len(runs)
    /\ IsDigit(runs[k][1])
    /\ Len(runs[k]) >= 2
    /\ Len(runs[k + 2]) <= 2

Match(raw) ==
    LET runs   == Runs(raw)
        starts == {k \in 1..Len(runs) : MatchesAt(runs, k)}
    IN  IF starts = {} THEN Null
        ELSE LET k == Min(starts)
                 y == runs[k]
                 d == runs[k + 4]
             IN  [year  |-> SubSeq(y, IF Len(y) > 4 THEN Len(y) - 3 ELSE 1, Len(y)),
                  month |-> runs[k + 2],
                  day   |-> SubSeq(d, 1, IF Len(d) >= 2 THEN 2 ELSE 1)]

\* A Date | null: [t |-> "date", day |-> n] or Null.
DateOf(n) == [t |-> "date", day |-> n]

parseKoreanDate(raw) ==
    LET match == Match(raw)
    IN  IF match = Null THEN Null
        ELSE LET y     == DigitsValue(match.year)
                 month == DigitsValue(match.month)
                 day   == DigitsValue(match.day)
                 year  == IF y < 100 THEN y + 2000 ELSE y
             \* Number(...) of digits is finite; the Date is never invalid
             IN  DateOf(NewDate(year, month - 1, day))

\* calculateDaysLeft with the clock reading today: a number of days or Null.
calculateDaysLeft(rawDate, today) ==
    LET parsed == parseKoreanDate(rawDate)
    IN  IF parsed = Null THEN Null
        ELSE LET startOfToday == today.day
                 target       == parsed.day
                 \* Math.floor(diffMs / (1000 * 60 * 60 * 24))
             IN  Num(target - startOfToday)

\* The renewal window, in days.
RenewalWindowDays == 120

\* days !== null && days >= 0 && days < 120
InWindow_Exclusive(days) ==
    days # Null /\ days.num >= 0 /\ days.num < RenewalWindowDays * days.den

\* days !== null && days >= 0 && days <= 120
InWindow(days) ==
    days # Null /\ days.num >= 0 /\ days.num <= RenewalWindowDays * days.den

\* '계약갱신' and '대출갱신'
KindContract == <<"gye", "yak", "gaeng", "sin">>
KindLoan == <<"dae", "chul", "gaeng", "sin">>

ContractSuffix == <<"-", "c", "o", "n", "t", "r", "a", "c", "t">>
LoanSuffix == <<"-", "l", "o", "a", "n">>

\* The alerts pushed for one unit, contract first.
AlertsOfUnit(u, today) ==
    LET contractDays == calculateDaysLeft(u.contractRenewalRaw, today)
        loanDays     == calculateDaysLeft(u.loanRenewalRaw, today)
    IN  (IF InWindow(contractDays)
         THEN <<[id |-> u.id \o ContractSuffix, site |-> u.site,
                 kind |-> KindContract, rawDate |-> u.contractRenewalRaw,
                 daysLeft |-> contractDays]>>
         ELSE <<>>)
        \o
        (IF InWindow(loanDays)
         THEN <<[id |-> u.id \o LoanSuffix, site |-> u.site,
                 kind |-> KindLoan, rawDate |-> u.loanRenewalRaw,
                 daysLeft |-> loanDays]>>
         ELSE <<>>)

\* for (const unit of units) { ... alerts.push(...) }
RECURSIVE PushedAlerts(_, _)
PushedAlerts(us, today) ==
    IF us = <<>> THEN <<>>
    ELSE PushedAlerts(SubSeq(us, 1, Len(us) - 1), today)
            \o AlertsOfUnit(us[Len(us)], today)

\* An insertion that puts an alert before the alerts of equal daysLeft.
InsertAlert_BeforeEqual(sorted, a) ==
    LET before == SelectSeq(sorted, LAMBDA b : b.daysLeft.num < a.daysLeft.num)
        after  == SelectSeq(sorted, LAMBDA b : b.daysLeft.num >= a.daysLeft.num)
    IN  before \o <<a>> \o after

\* a goes after every alert b with b.daysLeft - a.daysLeft <= 0.
InsertAlert(sorted, a) ==
    LET before == SelectSeq(sorted, LAMBDA b : b.daysLeft.num <= a.daysLeft.num)
        after  == SelectSeq(sorted, LAMBDA b : b.daysLeft.num > a.daysLeft.num)
    IN  before \o <<a>> \o after

\* alerts.sort((a, b) => a.daysLeft - b.daysLeft): Array.prototype.sort is
\* stable (ECMAScript 2019), so the result is that of an insertion sort.
RECURSIVE SortByDaysLeft(_)
SortByDaysLeft(alerts) ==
    IF alerts = <<>> THEN <<>>
    ELSE InsertAlert(SortByDaysLeft(SubSeq(alerts, 1, Len(alerts) - 1)),
                     alerts[Len(alerts)])

buildRenewalAlerts(us, today) == SortByDaysLeft(PushedAlerts(us, today))

----------------------------------------------------------------------------
(* Specification SpecAlerts: the renewal alerts of a unit list are built   *)
(* at some clock time.                                                     *)
(*   예 "ye"  정 "jeong"  미 "mi"                                            *)

\* Most units of an enumerated alert run.
MaxAlertUnits == 2

\* "2025년 5월 1일", "2025-05-02", "2024.12.31", "25/1/15",
\* "갱신 2025.1.15 예정"
Date20250501 == <<"2", "0", "2", "5", "nyeon", " ", "5", "wol", " ", "1", "il">>
Date20250502 == <<"2", "0", "2", "5", "-", "0", "5", "-", "0", "2">>
Date20241231 == <<"2", "0", "2", "4", ".", "1", "2", ".", "3", "1">>
Date250115 == <<"2", "5", "/", "1", "/", "1", "5">>
DateInProse == <<"gaeng", "sin", " ", "2", "0", "2", "5", ".", "1", ".", "1", "5",
                 " ", "ye", "jeong">>
\* "2024-13-05" (month 13) and "2025-02-30" (no such day)
DateMonth13 == <<"2", "0", "2", "4", "-", "1", "3", "-", "0", "5">>
DateFeb30 == <<"2", "0", "2", "5", "-", "0", "2", "-", "3", "0">>
\* "" and "미정 1-2": nothing the pattern matches
DateEmpty == <<>>
DateUndecided == <<"mi", "jeong", " ", "1", "-", "2">>

ContractDatePool ==
    {Date20250501, Date20250502, Date20241231, Date250115, DateMonth13, DateFeb30,
     DateEmpty, DateUndecided}
LoanDatePool == {DateInProse, Date20250501, DateEmpty}

\* The index-th unit (from 0) of a list, with the two renewal dates given.
AlertUnit(index, contractRaw, loanRaw) ==
    [UnitA EXCEPT !.id = <<"u", "n", "i", "t", "-">> \o NatToString(index),
                  !.contractRenewalRaw = contractRaw,
                  !.loanRenewalRaw = loanRaw]

\* The clock: 2025-01-01 or 2024-12-31, at midnight or at noon.
ClockPool ==
    {[day |-> d, ms |-> m] :
        d \in {DaysFromCivil(2025, 1, 1), DaysFromCivil(2024, 12, 31)},
        m \in {0, MsPerDay \div 2}}

AlertsVars == {"units", "now", "renewalAlerts"}

AlertsInit ==
    /\ units \in {[i \in 1..Len(ds) |-> AlertUnit(i - 1, ds[i][1], ds[i][2])] :
                    ds \in SeqsUpTo(ContractDatePool \X LoanDatePool, MaxAlertUnits)}
    /\ now \in ClockPool
    /\ renewalAlerts = Unset
    /\ ran = {}
    /\ IdleExcept(AlertsVars)

\* useMemo(() => buildRenewalAlerts(units), [units])
BuildRenewalAlerts ==
    /\ "buildRenewalAlerts" \notin ran
    /\ ran' = ran \cup {"buildRenewalAlerts"}
    /\ renewalAlerts' = buildRenewalAlerts(units, now)
    /\ UNCHANGED <<units, now>>
    /\ FrameExcept(AlertsVars)

AlertsNext == BuildRenewalAlerts

SpecAlerts == AlertsInit /\ [][AlertsNext]_vars

\* The alerts of unit u of the given kind ("contract" or "loan").
AlertsFor(u, kind) ==
    {i \in 1..Len(renewalAlerts) :
        renewalAlerts[i].id =
            units[u].id \o (IF kind = "contract" THEN ContractSuffix ELSE LoanSuffix)}

RawOf(u, kind) ==
    IF kind = "contract" THEN units[u].contractRenewalRaw ELSE units[u].loanRenewalRaw

\* The calendar day each well-formed date string of the pools names.
KnownDay(raw) ==
    CASE raw = Date20250501 -> DaysFromCivil(2025, 5, 1)
      [] raw = Date20250502 -> DaysFromCivil(2025, 5, 2)
      [] raw = Date20241231 -> DaysFromCivil(2024, 12, 31)
      [] raw = Date250115   -> DaysFromCivil(2025, 1, 15)
      [] raw = DateInProse  -> DaysFromCivil(2025, 1, 15)

KnownDates == {Date20250501, Date20250502, Date20241231, Date250115, DateInProse}

EncounterRank(i) ==
    CHOOSE r \in 0..(2 * Len(units) + 1) :
        \E u \in 1..Len(units) :
            \/ r = 2 * u /\ i \in AlertsFor(u, "contract")
            \/ r = 2 * u + 1 /\ i \in AlertsFor(u, "loan")

\* C7: the alert list is sorted ascending by daysLeft, and alerts of equal
\* daysLeft keep their encounter order (unit order, contract before loan).
C7_SortedStable ==
    "buildRenewalAlerts" \in ran =>
        \A i, j \in 1..Len(renewalAlerts) :
            i < j =>
                /\ renewalAlerts[i].daysLeft.num <= renewalAlerts[j].daysLeft.num
                /\ renewalAlerts[i].daysLeft = renewalAlerts[j].daysLeft
                      => EncounterRank(i) < EncounterRank(j)

\* Unit 1 has a contract alert later than its loan alert, and unit 2 a
\* contract alert on the day of unit 1's loan alert: the list is reordered
\* and the tie stands in encounter order.
C7_Witness ==
    /\ "buildRenewalAlerts" \in ran
    /\ Len(renewalAlerts) = 3
    /\ renewalAlerts[1].id = units[1].id \o LoanSuffix
    /\ renewalAlerts[2].id = units[2].id \o ContractSuffix
    /\ renewalAlerts[3].id = units[1].id \o ContractSuffix
    /\ renewalAlerts[1].daysLeft = renewalAlerts[2].daysLeft
    /\ renewalAlerts[2].daysLeft.num < renewalAlerts[3].daysLeft.num

\* The days of month m of year y.
DaysInMonth(y, m) ==
    IF m = 2
    THEN (IF (y % 4 = 0 /\ y % 100 # 0) \/ y % 400 = 0 THEN 29 ELSE 28)
    ELSE IF m \in {4, 6, 9, 11} THEN 30 ELSE 31

\* The matched tokens of raw name no calendar date.
InvalidCalendarDate(raw) ==
    /\ Match(raw) # Null
    /\ LET y     == DigitsValue(Match(raw).year)
           year  == IF y < 100 THEN y + 2000 ELSE y
           month == DigitsValue(Match(raw).month)
           day   == DigitsValue(Match(raw).day)
       IN  \/ month < 1 \/ month > 12
           \/ day < 1 \/ day > DaysInMonth(year, month)

\* C8: a string whose month token is outside 1..12, or whose day token is no
\* day of that month, parses to null and produces no renewal alert; the date
\* is never wrapped into a following month or year.
C8_InvalidDatesRejected ==
    "buildRenewalAlerts" \in ran =>
        \A u \in 1..Len(units) : \A kind \in {"contract", "loan"} :
            InvalidCalendarDate(RawOf(u, kind)) =>
                /\ parseKoreanDate(RawOf(u, kind)) = Null
                /\ AlertsFor(u, kind) = {}

----------------------------------------------------------------------------
(* The unit-detail routing table (unitDetailRoutes.ts).
 * Tokens of the Hangul syllables in its titles and aliases:
 *   덕 "deok"  은 "eun"  리 "ri"  버 "beo"  워 "wo"  크 "keu"  동 "dong"
 *   호 "ho"  에 "e_"  이 "i_"  스 "seu"  광 "gwang"  교 "gyo"  타 "ta"
 *   차 "cha"  인 "in"  천 "cheon"  유 "yu"  원 "won"  테 "te"  노 "no"
 *   밸 "bael"  센 "sen"  터 "teo"  상 "sang"  현 "hyeon"  시 "si"  그 "geu"
 *   니 "ni"  처 "cheo"  지 "ji"  엘 "el"  매 "mae"  트 "teu"  로 "ro"  티 "ti"
 *   메 "me"  한 "han"  강 "gang"  문 "mun"  래 "rae"  선 "seon"  도 "do"
 *   투 "tu"  웨 "we"  퍼 "peo"
 *)

\* deogeun-riverwalk-b-1016 (덕은 리버워크 B동 1016호)
Route1 ==
    [slug |-> <<"d", "e", "o", "g", "e", "u", "n", "-", "r", "i", "v", "e",
                "r", "w", "a", "l", "k", "-", "b", "-", "1", "0", "1", "6">>,
     gid |-> <<"8", "5", "4", "0", "3", "9", "3", "7">>,
     title |-> <<"deok", "eun", " ", "ri", "beo", "wo", "keu", " ", "B",
                 "dong", " ", "1", "0", "1", "6", "ho">>,
     aliases |-> <<<<"deok", "eun", " ", "ri", "beo", "wo", "keu", " ",
                     "B", "dong", " ", "1", "0", "1", "6", "ho">>>>]

\* ace-gwanggyo-b307 (에이스광교타워2차 B307호)
Route2 ==
    [slug |-> <<"a", "c", "e", "-", "g", "w", "a", "n", "g", "g", "y", "o",
                "-", "b", "3", "0", "7">>,
     gid |-> <<"1", "0", "3", "3", "2", "5", "7", "0", "0">>,
     title |-> <<"e_", "i_", "seu", "gwang", "gyo", "ta", "wo", "2", "cha",
                 " ", "B", "3", "0", "7", "ho">>,
     aliases |-> <<<<"e_", "i_", "seu", "gwang", "gyo", "ta", "wo", "2",
                     "cha", " ", "B", "3", "0", "7", "ho">>>>]

\* ace-gwanggyo-b308 (에이스광교타워2차 B308호)
Route3 ==
    [slug |-> <<"a", "c", "e", "-", "g", "w", "a", "n", "g", "g", "y", "o",
                "-", "b", "3", "0", "8">>,
     gid |-> <<"8", "3", "3", "6", "1", "8", "0", "3", "5">>,
     title |-> <<"e_", "i_", "seu", "gwang", "gyo", "ta", "wo", "2", "cha",
                 " ", "B", "3", "0", "8", "ho">>,
     aliases |-> <<<<"e_", "i_", "seu", "gwang", "gyo", "ta", "wo", "2",
                     "cha", " ", "B", "3", "0", "8", "ho">>>>]

\* incheon-u1-c1119 (인천유원 C1119호)
Route4 ==
    [slug |-> <<"i", "n", "c", "h", "e", "o", "n", "-", "u", "1", "-", "c",
                "1", "1", "1", "9">>,
     gid |-> <<"1", "9", "3", "2", "2", "1", "9", "6", "8">>,
     title |-> <<"in", "cheon", "yu", "won", " ", "C", "1", "1", "1", "9",
                 "ho">>,
     aliases |-> <<<<"in", "cheon", "yu", "won", " ", "C", "1", "1", "1",
                     "9", "ho">>,
                   <<"in", "cheon", "te", "keu", "no", "bael", "ri", " ",
                     "U", "1", "sen", "teo", " ", "C", "dong", " ", "1",
                     "1", "1", "9", "ho">>>>]

\* sanghyeon-signature-b318 (상현 시그니처 광교 B318호)
Route5 ==
    [slug |-> <<"s", "a", "n", "g", "h", "y", "e", "o", "n", "-", "s", "i",
                "g", "n", "a", "t", "u", "r", "e", "-", "b", "3", "1", "8">>,
     gid |-> <<"5", "1", "2", "2", "3", "9", "2", "7", "7">>,
     title |-> <<"sang", "hyeon", " ", "si", "geu", "ni", "cheo", " ",
                 "gwang", "gyo", " ", "B", "3", "1", "8", "ho">>,
     aliases |-> <<<<"sang", "hyeon", " ", "si", "geu", "ni", "cheo", " ",
                     "gwang", "gyo", " ", "B", "3", "1", "8", "ho">>>>]

\* deogeun-gl-aa509 (덕은지엘매트로시티 AA509호)
Route6 ==
    [slug |-> <<"d", "e", "o", "g", "e", "u", "n", "-", "g", "l", "-", "a",
                "a", "5", "0", "9">>,
     gid |-> <<"3", "2", "3", "6", "1", "8", "9", "0", "8">>,
     title |-> <<"deok", "eun", "ji", "el", "mae", "teu", "ro", "si", "ti",
                 " ", "A", "A", "5", "0", "9", "ho">>,
     aliases |-> <<<<"deok", "eun", "ji", "el", "mae", "teu", "ro", "si",
                     "ti", " ", "A", "A", "5", "0", "9", "ho">>,
                   <<"G", "L", "me", "teu", "ro", "si", "ti", " ", "han",
                     "gang", " ", "A", "A", "-", "5", "0", "9", "ho">>>>]

\* deogeun-gl-ab1005 (덕은지엘매트로시티 AB1005호)
Route7 ==
    [slug |-> <<"d", "e", "o", "g", "e", "u", "n", "-", "g", "l", "-", "a",
                "b", "1", "0", "0", "5">>,
     gid |-> <<"8", "2", "7", "1", "0", "1", "5", "9", "6">>,
     title |-> <<"deok", "eun", "ji", "el", "mae", "teu", "ro", "si", "ti",
                 " ", "A", "B", "1", "0", "0", "5", "ho">>,
     aliases |-> <<<<"deok", "eun", "ji", "el", "mae", "teu", "ro", "si",
                     "ti", " ", "A", "B", "1", "0", "0", "5", "ho">>,
                   <<"G", "L", "me", "teu", "ro", "si", "ti", " ", "han",
                     "gang", " ", "A", "B", "-", "1", "0", "0", "5", "ho">>>>]

\* mullae-skv1-712 (문래 SKv1 712호)
Route8 ==
    [slug |-> <<"m", "u", "l", "l", "a", "e", "-", "s", "k", "v", "1", "-",
                "7", "1", "2">>,
     gid |-> <<"1", "3", "7", "6", "0", "3", "9", "6", "3", "8">>,
     title |-> <<"mun", "rae", " ", "S", "K", "v", "1", " ", "7", "1", "2",
                 "ho">>,
     aliases |-> <<<<"mun", "rae", " ", "S", "K", "v", "1", " ", "7", "1",
                     "2", "ho">>,
                   <<"mun", "rae", "S", "K", "v", "1", " ", "7", "1", "2",
                     "ho">>>>]

\* seonyudo-twentyfirst-b109 (선유도투웨니퍼스트밸리 B109호)
Route9 ==
    [slug |-> <<"s", "e", "o", "n", "y", "u", "d", "o", "-", "t", "w", "e",
                "n", "t", "y", "f", "i", "r", "s", "t", "-", "b", "1", "0",
                "9">>,
     gid |-> <<"1", "4", "4", "4", "0", "3", "7", "5", "6", "5">>,
     title |-> <<"seon", "yu", "do", "tu", "we", "ni", "peo", "seu", "teu",
                 "bael", "ri", " ", "B", "1", "0", "9", "ho">>,
     aliases |-> <<<<"seon", "yu", "do", "tu", "we", "ni", "peo", "seu",
                     "teu", "bael", "ri", " ", "B", "1", "0", "9", "ho">>,
                   <<"seon", "yu", "do", " ", "tu", "we", "ni", "peo",
                     "seu", "teu", " ", "bael", "ri", " ", "B", "1", "0",
                     "9", "ho">>>>]

UNIT_DETAIL_ROUTES ==
    <<Route1, Route2, Route3, Route4, Route5, Route6, Route7, Route8, Route9>>

\* String.prototype.toUpperCase, for spelling a name in capitals.
UpperChar(c) ==
    IF \E i \in 1..26 : LowerCase[i] = c
    THEN UpperCase[CHOOSE i \in 1..26 : LowerCase[i] = c]
    ELSE c

toUpperCase(s) == [i \in 1..Len(s) |-> UpperChar(s[i])]

\* '-'
Hyphen == "-"

\* normalize that lowers the case and removes white space only.
normalize_KeepsHyphens(value) ==
    SelectSeq(toLowerCase(value), LAMBDA c : c \notin WhiteSpace)

\* value.toLowerCase().replace(/[\s-]/g, '')
normalize(value) ==
    SelectSeq(toLowerCase(value), LAMBDA c : c \notin WhiteSpace /\ c # Hyphen)

\* UNIT_DETAIL_ROUTES.find((route) => route.aliases.some(...)) ?? null
getUnitDetailBySite(list, name) ==
    LET target == normalize(name)
        hit == {i \in 1..Len(list) :
                   \E j \in 1..Len(list[i].aliases) :
                       normalize(list[i].aliases[j]) = target}
    IN  IF hit = {} THEN Null ELSE list[Min(hit)]

\* getUnitDetailBySlug that falls back to the first route.
getUnitDetailBySlug_FirstRoute(list, s) ==
    LET hit == {i \in 1..Len(list) : list[i].slug = s}
    IN  IF hit = {} THEN list[1] ELSE list[Min(hit)]

\* UNIT_DETAIL_ROUTES.find((item) => item.slug === slug) ?? null
getUnitDetailBySlug(list, s) ==
    LET hit == {i \in 1..Len(list) : list[i].slug = s}
    IN  IF hit = {} THEN Null ELSE list[Min(hit)]

----------------------------------------------------------------------------
(* Specification SpecRoutes: a site name and a slug are looked up in the   *)
(* routing table.                                                          *)

\* The characters a spelling of a name may add or drop.
Separators == {" ", "TAB", Hyphen}

\* s with the character c put in after its first p characters.
InsertAt(s, p, c) == SubSeq(s, 1, p) \o <<c>> \o SubSeq(s, p + 1, Len(s))

\* Every alias of the table.
AllAliases ==
    UNION {{UNIT_DETAIL_ROUTES[i].aliases[j] :
                j \in 1..Len(UNIT_DETAIL_ROUTES[i].aliases)} :
           i \in 1..Len(UNIT_DETAIL_ROUTES)}

\* Every slug of the table.
AllSlugs == {UNIT_DETAIL_ROUTES[i].slug : i \in 1..Len(UNIT_DETAIL_ROUTES)}

\* Spellings of the name a that differ from it in letter case, white space
\* or hyphens only: a itself, in capitals, in small letters, with its
\* separators dropped, and each of these with one separator put in anywhere.
Spellings(a) ==
    LET cased == {a, toUpperCase(a), toLowerCase(a)}
        dropped == {SelectSeq(x, LAMBDA c : c \notin Separators) : x \in cased}
        base == cased \cup dropped
    IN  base \cup {InsertAt(a, p, c) : p \in 0..Len(a), c \in Separators}
             \cup {InsertAt(toUpperCase(a), p, Hyphen) : p \in 0..Len(a)}

\* Names that are no spelling of a: a letter short, a letter long, a digit
\* changed.
NearMisses(a) ==
    {Tail(a), SubSeq(a, 1, Len(a) - 1), Append(a, "2"),
     [a EXCEPT ![Len(a) - 1] = "X"]}

\* The site names looked up: the sheet's site cells as a user may type them.
SitePool ==
    UNION {Spellings(a) \cup NearMisses(a) : a \in AllAliases}
        \cup {<<>>, <<" ">>, <<Hyphen>>}

\* The slugs looked up: the :unitSlug segment of the URL.
SlugPool ==
    AllSlugs \cup {toUpperCase(s) : s \in AllSlugs}
             \cup {Tail(s) : s \in AllSlugs}
             \cup {SelectSeq(s, LAMBDA c : c # Hyphen) : s \in AllSlugs}
             \cup {<<>>}

RoutesVars == {"routes", "site", "routeBySite", "slug", "routeBySlug"}

RoutesInit ==
    /\ ran = {}
    /\ routes = UNIT_DETAIL_ROUTES
    /\ site = Unset
    /\ routeBySite = Unset
    /\ slug = Unset
    /\ routeBySlug = Unset
    /\ IdleExcept(RoutesVars)

GetUnitDetailBySite ==
    /\ "getUnitDetailBySite" \notin ran
    /\ ran' = ran \cup {"getUnitDetailBySite"}
    /\ \E name \in SitePool :
          /\ site' = name
          /\ routeBySite' = getUnitDetailBySite(routes, name)
    /\ UNCHANGED <<routes, slug, routeBySlug>>
    /\ FrameExcept(RoutesVars)

GetUnitDetailBySlug ==
    /\ "getUnitDetailBySlug" \notin ran
    /\ ran' = ran \cup {"getUnitDetailBySlug"}
    /\ \E s \in SlugPool :
          /\ slug' = s
          /\ routeBySlug' = getUnitDetailBySlug(routes, s)
    /\ UNCHANGED <<routes, site, routeBySite>>
    /\ FrameExcept(RoutesVars)

RoutesNext == GetUnitDetailBySite \/ GetUnitDetailBySlug

SpecRoutes == RoutesInit /\ [][RoutesNext]_vars

\* x with its white space and hyphens taken out.
Skeleton(x) == SelectSeq(x, LAMBDA c : c \notin WhiteSpace /\ c # Hyphen)

\* x and y differ in letter case, white space and hyphens only.
SameName(x, y) ==
    LET sx == Skeleton(x)
        sy == Skeleton(y)
    IN  /\ Len(sx) = Len(sy)
        /\ \A i \in 1..Len(sx) : toUpperCase(<<sx[i]>>) = toUpperCase(<<sy[i]>>)

\* The routes with an alias that the name x spells.
RoutesNamed(x) ==
    {i \in 1..Len(UNIT_DETAIL_ROUTES) :
        \E j \in 1..Len(UNIT_DETAIL_ROUTES[i].aliases) :
            SameName(x, UNIT_DETAIL_ROUTES[i].aliases[j])}

\* C9: a site name that spells an alias of a route (up to letter case, white
\* space and hyphens) is looked up to that route, and a route's slug to that
\* route; a site name that spells no alias, and a slug of no route, are
\* looked up to null; a lookup leaves the table as it was compiled.
C9_RoutingRoundTrip ==
    /\ routes = UNIT_DETAIL_ROUTES
    /\ "getUnitDetailBySite" \in ran =>
          /\ \A i \in RoutesNamed(site) : routeBySite = UNIT_DETAIL_ROUTES[i]
          /\ RoutesNamed(site) = {} => routeBySite = Null
    /\ "getUnitDetailBySlug" \in ran =>
          /\ \A i \in 1..Len(UNIT_DETAIL_ROUTES) :
                UNIT_DETAIL_ROUTES[i].slug = slug
                    => routeBySlug = UNIT_DETAIL_ROUTES[i]
          /\ slug \notin AllSlugs => routeBySlug = Null

\* A spelling with a hyphen dropped and the case changed reached route 6, and
\* that route's slug reached it too.
C9_Witness ==
    /\ ran = {"getUnitDetailBySite", "getUnitDetailBySlug"}
    /\ site = toLowerCase(SelectSeq(Route6.aliases[2],
                                    LAMBDA c : c \notin Separators))
    /\ routeBySite = Route6
    /\ slug = Route6.slug
    /\ routeBySlug = Route6

----------------------------------------------------------------------------
(* The transport and the decoder (googleSheets.ts).
 * The text of a response is a sequence of chunks: the call syntax of the
 * envelope ("setResponse(", ")", ";"), a line feed "NL", other text, and,
 * for a chunk that is one complete JSON text, the name of that document.
 * Tokens of the Hangul syllables in the messages:
 *   환 "hwan"  경 "gyeong"  변 "byeon"  수 "su"  가 "ga"  필 "pil"  요 "yo"
 *   합 "hap"  니 "ni"  다 "da"  응 "eung"  답 "dap"  을 "eul"  파 "pa"
 *   싱 "sing"  할 "hal"  없 "eops"  습 "seup"  청 "cheong"  실 "sil"  패 "pae"
 *   데 "de"  이 "i_"  터 "teo"  를 "reul"  불 "bul"  러 "reo"  오 "o_"
 *   는 "neun"  중 "jung"  류 "ryu"  발 "bal"  생 "saeng"  했 "haess"
 *   상 "sang"  세 "se"
 *)

\* An Error object: caughtError instanceof Error holds of it.
Error(name, message) == [t |-> "error", name |-> name, message |-> message]

\* How an evaluation completes: with a value, or by throwing.
Return(v) == [t |-> "return", value |-> v]
Throw(e) == [t |-> "throw", error |-> e]

\* 'VITE_GOOGLE_SHEET_ID'
SheetIdName ==
    <<"V", "I", "T", "E", "_", "G", "O", "O", "G", "L", "E", "_", "S", "H",
      "E", "E", "T", "_", "I", "D">>

\* ' 환경 변수가 필요합니다.'
EnvRequired ==
    <<" ", "hwan", "gyeong", " ", "byeon", "su", "ga", " ", "pil", "yo",
      "hap", "ni", "da", ".">>

\* 'Google Sheets 응답을 파싱할 수 없습니다.'
CannotParse ==
    <<"G", "o", "o", "g", "l", "e", " ", "S", "h", "e", "e", "t", "s", " ",
      "eung", "dap", "eul", " ", "pa", "sing", "hal", " ", "su", " ",
      "eops", "seup", "ni", "da", ".">>

\* 'Google Sheets 요청 실패: '
RequestFailed ==
    <<"G", "o", "o", "g", "l", "e", " ", "S", "h", "e", "e", "t", "s", " ",
      "yo", "cheong", " ", "sil", "pae", ":", " ">>

\* '데이터를 불러오는 중 오류가 발생했습니다.'
LoadDataFailed ==
    <<"de", "i_", "teo", "reul", " ", "bul", "reo", "o_", "neun", " ",
      "jung", " ", "o_", "ryu", "ga", " ", "bal", "saeng", "haess", "seup",
      "ni", "da", ".">>

\* '상세 데이터를 불러오는 중 오류가 발생했습니다.'
RunFailed ==
    <<"sang", "se", " ", "de", "i_", "teo", "reul", " ", "bul", "reo",
      "o_", "neun", " ", "jung", " ", "o_", "ryu", "ga", " ", "bal",
      "saeng", "haess", "seup", "ni", "da", ".">>

\* 'column_'
ColumnPrefix ==
    <<"c", "o", "l", "u", "m", "n", "_">>

\* The messages the engine gives its own errors (they differ by engine).
FailedToFetch ==
    <<"F", "a", "i", "l", "e", "d", " ", "t", "o", " ", "f", "e", "t", "c", "h">>
UnexpectedToken ==
    <<"U", "n", "e", "x", "p", "e", "c", "t", "e", "d", " ", "t", "o", "k", "e", "n">>
CannotReadProperties ==
    <<"C", "a", "n", "n", "o", "t", " ", "r", "e", "a", "d">>

\* getRequiredEnv(name), value being import.meta.env[name]
getRequiredEnv(value, name) ==
    IF value.t # "str" \/ value.s = <<>>
    THEN Throw(Error("Error", name \o EnvRequired))
    ELSE Return(value.s)

\* The sheets served: GvizTable values.  The portfolio sheet has a labelled
\* and an unlabelled column; a detail sheet has unlabelled columns.
PortfolioTable1 ==
    [cols |-> <<[label |-> Str(<<" ", "hyeon", "jang", "myeong", " ">>)],
                [label |-> Str(<<" ">>)]>>,
     rows |-> <<[c |-> <<[v |-> Str(<<"A">>)], Null>>]>>]
PortfolioTable2 ==
    [cols |-> <<[label |-> Str(<<"hyeon", "jang", "myeong">>)],
                [label |-> Undefined]>>,
     rows |-> <<[c |-> <<[v |-> Str(<<"A">>)], [v |-> Num(1000)]>>],
                [c |-> <<[v |-> Str(<<"B">>)]>>]>>]
DetailTable1 ==
    [cols |-> <<[label |-> Str(<<>>)]>>,
     rows |-> <<[c |-> <<[v |-> Str(Route1.title)]>>]>>]
DetailTable2 ==
    [cols |-> <<[label |-> Str(<<>>)]>>,
     rows |-> <<[c |-> <<[v |-> Str(Route2.title)]>>]>>]

\* The JSON documents a response may carry, by name: a table each, and the
\* error document of the visualization API, which has no table.
Documents ==
    [name \in {"DocPortfolio1", "DocPortfolio2", "DocRoute1", "DocRoute2",
               "DocError"} |->
        CASE name = "DocPortfolio1" -> [status |-> "ok", table |-> PortfolioTable1]
          [] name = "DocPortfolio2" -> [status |-> "ok", table |-> PortfolioTable2]
          [] name = "DocRoute1" -> [status |-> "ok", table |-> DetailTable1]
          [] name = "DocRoute2" -> [status |-> "ok", table |-> DetailTable2]
          [] name = "DocError" -> [status |-> "error"]]

\* JSON.parse(text)
JSONParse(text) ==
    IF Len(text) = 1 /\ text[1] \in DOMAIN Documents
    THEN Return(Documents[text[1]])
    ELSE Throw(Error("SyntaxError", UnexpectedToken))

\* rawText.match(/setResponse\((.*)\);?$/s): the leftmost "setResponse(",
\* and the capture up to the ")" that ends the text or is followed by the
\* ";" that ends it.
parseGoogleVisualizationResponse(rawText) ==
    LET n == Len(rawText)
        close == IF n >= 1 /\ rawText[n] = ")" THEN n
                 ELSE IF n >= 2 /\ rawText[n] = ";" /\ rawText[n - 1] = ")"
                 THEN n - 1
                 ELSE 0
        opens == {i \in 1..n : rawText[i] = "setResponse(" /\ i < close}
    IN  IF opens = {} THEN Throw(Error("Error", CannotParse))
        ELSE IF SubSeq(rawText, Min(opens) + 1, close - 1) = <<>>
        THEN Throw(Error("Error", CannotParse))
        ELSE JSONParse(SubSeq(rawText, Min(opens) + 1, close - 1))

\* What the network does with a fetch: the call rejects, or a response
\* arrives.  NoExchange: the load operation never called fetch.
Rejected(reason) == [t |-> "rejected", reason |-> reason]
Response(status, text) == [t |-> "response", status |-> status, text |-> text]
NoExchange == [t |-> "none"]

\* response.ok
Ok(response) == response.status \in 200..299

\* entry[header] = value
SetKey(entry, header, value) ==
    IF \E i \in 1..Len(entry) : entry[i].k = header
    THEN [i \in 1..Len(entry) |->
             IF entry[i].k = header THEN [k |-> header, v |-> value] ELSE entry[i]]
    ELSE Append(entry, [k |-> header, v |-> value])

\* row.c[index]?.v ?? null
CellValue(c, index) ==
    IF index > Len(c) THEN Null
    ELSE IF c[index] = Null THEN Null
    ELSE Coalesce(c[index].v, Null)

\* headers.forEach((header, index) => { entry[header] = ... }), the first n
\* headers done.
RECURSIVE EntryOf(_, _, _)
EntryOf(headers, c, n) ==
    IF n = 0 THEN <<>>
    ELSE SetKey(EntryOf(headers, c, n - 1), headers[n], CellValue(c, n))

\* The rows fetchGoogleSheetRows returns for a decoded table.
RowsOf(parsed) ==
    LET headers ==
            [index \in 1..Len(parsed.cols) |->
                LET label == parsed.cols[index].label
                IN  IF label.t = "str" /\ label.s # <<>> /\ trim(label.s) # <<>>
                    THEN trim(label.s)
                    ELSE ColumnPrefix \o NatToString(index)]
    IN  [r \in 1..Len(parsed.rows) |->
            EntryOf(headers, parsed.rows[r].c, Len(headers))]

\* fetchGoogleSheetRows(), the network answering with exchange
fetchGoogleSheetRows(sheetIdEnv, exchange) ==
    LET sheetId == getRequiredEnv(sheetIdEnv, SheetIdName)
    IN  IF sheetId.t = "throw" THEN sheetId
        ELSE IF exchange.t = "rejected" THEN Throw(exchange.reason)
        ELSE IF ~Ok(exchange)
        THEN Throw(Error("Error", RequestFailed \o String(Num(exchange.status))))
        ELSE LET decoded == parseGoogleVisualizationResponse(exchange.text)
             IN  IF decoded.t = "throw" THEN decoded
                 ELSE IF "table" \notin DOMAIN decoded.value
                 THEN Throw(Error("TypeError", CannotReadProperties))
                 ELSE Return(RowsOf(decoded.value.table))

\* fetchGoogleSheetTableByGid(gid), the network answering with exchange
fetchGoogleSheetTableByGid(sheetIdEnv, exchange) ==
    LET sheetId == getRequiredEnv(sheetIdEnv, SheetIdName)
    IN  IF sheetId.t = "throw" THEN sheetId
        ELSE IF exchange.t = "rejected" THEN Throw(exchange.reason)
        ELSE IF ~Ok(exchange)
        THEN Throw(Error("Error", RequestFailed \o String(Num(exchange.status))))
        ELSE LET decoded == parseGoogleVisualizationResponse(exchange.text)
             IN  IF decoded.t = "throw" THEN decoded
                 ELSE IF "table" \notin DOMAIN decoded.value
                 THEN Return(Undefined)
                 ELSE Return(decoded.value.table)

----------------------------------------------------------------------------
(* The two pages: PortfolioPage (loadData) and UnitDetailPage (the effect's *)
(* run).  A load operation runs up to its await when it is started, and    *)
(* from its await to its end when the fetch settles.                       *)

\* caughtError instanceof Error ? caughtError.message : fallback
CaughtMessage(caughtError, fallback) ==
    IF caughtError.t = "error" THEN caughtError.message ELSE fallback

\* loadData whose try has a finally and no catch.
loadData_NoCatch(prev, result) ==
    IF result.t = "return"
    THEN [data |-> result.value, error |-> prev.error, loading |-> FALSE,
          promise |-> Return(Undefined)]
    ELSE [data |-> prev.data, error |-> prev.error, loading |-> FALSE,
          promise |-> Throw(result.error)]

\* loadData whose catch also empties the rows.
loadData_ResetsOnFailure(prev, result) ==
    IF result.t = "return"
    THEN [data |-> result.value, error |-> prev.error, loading |-> FALSE,
          promise |-> Return(Undefined)]
    ELSE [data |-> <<>>,
          error |-> Str(CaughtMessage(result.error, LoadDataFailed)),
          loading |-> FALSE,
          promise |-> Return(Undefined)]

\* loadData from its await on: result is how fetchGoogleSheetRows()
\* completed, prev the state it resumes in.  The state it leaves, and how
\* its own promise settles.
loadData(prev, result) ==
    IF result.t = "return"
    THEN [data |-> result.value, error |-> prev.error, loading |-> FALSE,
          promise |-> Return(Undefined)]
    ELSE [data |-> prev.data,
          error |-> Str(CaughtMessage(result.error, LoadDataFailed)),
          loading |-> FALSE,
          promise |-> Return(Undefined)]

\* run that keeps the table of the first response.
run_KeepsFirst(prev, result) ==
    IF result.t = "return"
    THEN [data |-> IF prev.data = Null THEN result.value ELSE prev.data,
          error |-> prev.error, loading |-> FALSE,
          promise |-> Return(Undefined)]
    ELSE [data |-> prev.data,
          error |-> Str(CaughtMessage(result.error, RunFailed)),
          loading |-> FALSE,
          promise |-> Return(Undefined)]

\* run from its await on, likewise.
run(prev, result) ==
    IF result.t = "return"
    THEN [data |-> result.value, error |-> prev.error, loading |-> FALSE,
          promise |-> Return(Undefined)]
    ELSE [data |-> prev.data,
          error |-> Str(CaughtMessage(result.error, RunFailed)),
          loading |-> FALSE,
          promise |-> Return(Undefined)]

----------------------------------------------------------------------------
(* Specification SpecViews: one of the two pages is mounted, loads its     *)
(* sheet, and is refreshed (PortfolioPage) or navigated to another unit    *)
(* (UnitDetailPage) while the network answers in any order.                *)

\* Most load operations started in one run.
MaxFetches == 3

PortfolioPage == "PortfolioPage"
UnitDetailPage == "UnitDetailPage"

\* VITE_GOOGLE_SHEET_ID: set, set to nothing, not set.
EnvPool == {Str(<<"s", "h", "e", "e", "t">>), Str(<<>>), Undefined}

\* The :unitSlug segments visited: two units, and two slugs of no unit.
UnitSlugPool ==
    {Route1.slug, Route2.slug, toUpperCase(Route1.slug), <<"x">>}

\* The response text that wraps the document doc.
Enveloped(doc) ==
    <<"/*O_o*/", "NL", "google.visualization.Query.", "setResponse(", doc,
      ")", ";">>

\* The documents the server has for a request: the portfolio sheet in one
\* of two versions, or the tab of the requested gid.
DocsFor(request) ==
    IF request.gid = <<>> THEN {"DocPortfolio1", "DocPortfolio2"}
    ELSE IF request.gid = Route1.gid THEN {"DocRoute1"}
    ELSE {"DocRoute2"}

\* A page that is no response of the visualization API, an envelope around
\* nothing, an envelope around text that is no JSON.
HtmlPage == <<"<html>">>
EmptyEnvelope == <<"setResponse(", ")", ";">>
BrokenJson == <<"setResponse(", "{", ")", ";">>

\* The response texts of a successful status.
TextsFor(request) ==
    {Enveloped(doc) : doc \in DocsFor(request) \cup {"DocError"}}
        \cup {<<"setResponse(", doc, ")">> : doc \in DocsFor(request)}
        \cup {Enveloped(doc) \o <<"NL">> : doc \in DocsFor(request)}
        \cup {HtmlPage, EmptyEnvelope, BrokenJson}

\* What the network may do with a request.
ExchangesFor(request) ==
    {Rejected(Error("TypeError", FailedToFetch)),
     Rejected(Str(<<"o", "f", "f", "l", "i", "n", "e">>))}
        \cup {Response(status, HtmlPage) : status \in {404, 500}}
        \cup {Response(200, text) : text \in TextsFor(request)}

\* How a load operation's fetch is answered: without a sheet id it never
\* calls fetch.
Answers(request) ==
    IF getRequiredEnv(env, SheetIdName).t = "throw" THEN {NoExchange}
    ELSE ExchangesFor(request)

NotSettled == [t |-> "none"]

ViewsVars ==
    {"page", "env", "loading", "error", "rows", "table", "unitSlug", "unit",
     "inflight", "issued", "settled", "rejections"}

\* The page after its first commit: its state as useState gives it, and its
\* effect run (loadData, or run when the slug names a unit).
ViewsInit ==
    /\ ran = {}
    /\ page \in {PortfolioPage, UnitDetailPage}
    /\ env \in EnvPool
    /\ error = Null
    /\ settled = NotSettled
    /\ rejections = {}
    /\ \/ /\ page = PortfolioPage
          /\ rows = <<>>
          /\ table = Unset
          /\ unitSlug = Unset
          /\ unit = Unset
          /\ loading = TRUE
          /\ inflight = {[id |-> 1, gid |-> <<>>]}
          /\ issued = 1
       \/ /\ page = UnitDetailPage
          /\ rows = Unset
          /\ table = Null
          /\ unitSlug \in UnitSlugPool
          /\ unit = getUnitDetailBySlug(UNIT_DETAIL_ROUTES, unitSlug)
          /\ IF unit = Null
             THEN loading = FALSE /\ inflight = {} /\ issued = 0
             ELSE /\ loading = TRUE
                  /\ inflight = {[id |-> 1, gid |-> unit.gid]}
                  /\ issued = 1
    /\ IdleExcept(ViewsVars)

\* The refresh button (disabled while loading): loadData up to its await.
LoadData ==
    /\ page = PortfolioPage
    /\ loading = FALSE
    /\ issued < MaxFetches
    /\ loading' = TRUE
    /\ error' = Null
    /\ inflight' = inflight \cup {[id |-> issued + 1, gid |-> <<>>]}
    /\ issued' = issued + 1
    /\ UNCHANGED <<ran, page, env, rows, table, unitSlug, unit, settled,
                   rejections>>
    /\ FrameExcept(ViewsVars)

\* loadData from its await on.
LoadDataResumes ==
    /\ page = PortfolioPage
    /\ \E request \in inflight : \E exchange \in Answers(request) :
          LET result == fetchGoogleSheetRows(env, exchange)
              next == loadData([data |-> rows, error |-> error], result)
          IN  /\ rows' = next.data
              /\ error' = next.error
              /\ loading' = next.loading
              /\ inflight' = inflight \ {request}
              /\ settled' = [t |-> "settled", id |-> request.id,
                             exchange |-> exchange]
              /\ rejections' = IF next.promise.t = "throw"
                               THEN rejections \cup {request.id}
                               ELSE rejections
    /\ UNCHANGED <<ran, page, env, table, unitSlug, unit, issued>>
    /\ FrameExcept(ViewsVars)

\* The route parameter changes: unit is recomputed and, when it is another
\* unit than before, the effect runs: run up to its await, or
\* setLoading(false) when the slug names no unit.
Navigate ==
    /\ page = UnitDetailPage
    /\ \E s \in UnitSlugPool \ {unitSlug} :
          LET next == getUnitDetailBySlug(UNIT_DETAIL_ROUTES, s)
          IN  /\ unitSlug' = s
              /\ unit' = next
              /\ IF next = unit
                 THEN UNCHANGED <<loading, error, inflight, issued>>
                 ELSE IF next = Null
                 THEN /\ loading' = FALSE
                      /\ UNCHANGED <<error, inflight, issued>>
                 ELSE /\ issued < MaxFetches
                      /\ loading' = TRUE
                      /\ error' = Null
                      /\ inflight' = inflight \cup
                                       {[id |-> issued + 1, gid |-> next.gid]}
                      /\ issued' = issued + 1
    /\ UNCHANGED <<ran, page, env, rows, table, settled, rejections>>
    /\ FrameExcept(ViewsVars)

\* run from its await on.
RunResumes ==
    /\ page = UnitDetailPage
    /\ \E request \in inflight : \E exchange \in Answers(request) :
          LET result == fetchGoogleSheetTableByGid(env, exchange)
              next == run([data |-> table, error |-> error], result)
          IN  /\ table' = next.data
              /\ error' = next.error
              /\ loading' = next.loading
              /\ inflight' = inflight \ {request}
              /\ settled' = [t |-> "settled", id |-> request.id,
                             exchange |-> exchange]
              /\ rejections' = IF next.promise.t = "throw"
                               THEN rejections \cup {request.id}
                               ELSE rejections
    /\ UNCHANGED <<ran, page, env, rows, unitSlug, unit, issued>>
    /\ FrameExcept(ViewsVars)

ViewsNext == LoadData \/ LoadDataResumes \/ Navigate \/ RunResumes

SpecViews == ViewsInit /\ [][ViewsNext]_vars

\* The failures of the fetch path, told from what the network did.
MissingConfiguration == env = Undefined \/ env = Str(<<>>)
NonSuccessStatus(exchange) ==
    exchange.t = "response" /\ exchange.status \notin 200..299
AbsentEnvelope(exchange) ==
    /\ exchange.t = "response"
    /\ exchange.status \in 200..299
    /\ \A i \in 1..Len(exchange.text) : exchange.text[i] # "setResponse("
InvalidJson(exchange) ==
    /\ exchange.t = "response"
    /\ exchange.status \in 200..299
    /\ \E i \in 1..Len(exchange.text) : \E j \in (i + 1)..Len(exchange.text) :
          /\ exchange.text[i] = "setResponse("
          /\ exchange.text[j] = ")"
          /\ \A k \in (i + 1)..(j - 1) : exchange.text[k] \notin DOMAIN Documents
RejectedCall(exchange) == exchange.t = "rejected"

FetchFailed(exchange) ==
    \/ MissingConfiguration
    \/ NonSuccessStatus(exchange)
    \/ AbsentEnvelope(exchange)
    \/ InvalidJson(exchange)
    \/ RejectedCall(exchange)

\* C10: in either page, when a load operation resumes from a fetch that
\* failed (no sheet id configured, a status outside 200..299, no envelope
\* in the text, no JSON in the envelope, the network call rejected), it
\* leaves error a message string and loading false, its promise does not
\* reject, and for a status outside 200..299 the message contains the
\* digits of the status.
C10_ErrorsCaughtAtViewBoundary ==
    [][(settled' # settled /\ FetchFailed(settled'.exchange)) =>
          /\ error'.t = "str"
          /\ error'.s # <<>>
          /\ loading' = FALSE
          /\ rejections' = rejections
          /\ NonSuccessStatus(settled'.exchange) =>
                Includes(error'.s, NatToString(settled'.exchange.status))]_vars

\* The detail page was answered 404 and shows the request-failed message
\* with 404 in it; loading is off.
C10_Witness ==
    /\ page = UnitDetailPage
    /\ settled.t = "settled"
    /\ settled.exchange = Response(404, HtmlPage)
    /\ error = Str(RequestFailed \o <<"4", "0", "4">>)
    /\ loading = FALSE
    /\ rejections = {}

\* C11: when a load operation resumes from a response whose text has no
\* setResponse(...) envelope, and equally when the text inside the envelope
\* is no JSON, the message it leaves in error is the generic could-not-parse
\* message.
C11_DecodeFailureMessage ==
    [][(/\ settled' # settled
        /\ ~MissingConfiguration
        /\ AbsentEnvelope(settled'.exchange) \/ InvalidJson(settled'.exchange))
          => error' = Str(CannotParse)]_vars

\* What UnitDetailPage renders from its state: the not-found message when
\* the slug names no unit; else the unit's title, the loading line, the
\* error line, and the sections parsed from the table when there is one.
UnitDetailView(u, tbl, isLoading, message) ==
    IF u = Null THEN [view |-> "notFound"]
    ELSE [view |-> "detail",
          title |-> u.title,
          loadingLine |-> isLoading,
          errorLine |-> message,
          parsedFrom |-> IF tbl = Null \/ tbl = Undefined THEN Null ELSE tbl]

\* C12: while the detail page shows a slug of no route it renders the
\* not-found state and loading is false; opened with such a slug it has
\* started no fetch and error is null; and being navigated to such a slug
\* starts no fetch and leaves error as it was.
C12_UnknownSlug ==
    /\ [](page = UnitDetailPage /\ unitSlug \notin AllSlugs =>
            /\ UnitDetailView(unit, table, loading, error).view = "notFound"
            /\ loading = FALSE
            /\ issued = 0 => inflight = {} /\ error = Null /\ table = Null)
    /\ [][(page = UnitDetailPage /\ unitSlug' # unitSlug
                                 /\ unitSlug' \notin AllSlugs) =>
            /\ inflight' = inflight
            /\ issued' = issued
            /\ error' = error]_vars

\* The detail page was navigated from a unit whose fetch is still in flight
\* to the slug "x": it shows not-found, loading is off, nothing was started.
C12_Witness ==
    /\ page = UnitDetailPage
    /\ unitSlug = <<"x">>
    /\ unit = Null
    /\ issued = 1
    /\ Cardinality(inflight) = 1
    /\ loading = FALSE
    /\ error = Null
    /\ UnitDetailView(unit, table, loading, error).view = "notFound"

\* The document a well-formed response text wraps.
WrappedDoc(text) ==
    CHOOSE doc \in DOMAIN Documents :
        text \in {Enveloped(doc), <<"setResponse(", doc, ")">>}

\* The fetch answered with exchange resolved with a sheet.
ResolvedWithSheet(exchange) ==
    /\ ~MissingConfiguration
    /\ exchange.t = "response"
    /\ exchange.status = 200
    /\ \E doc \in DOMAIN Documents \ {"DocError"} :
          exchange.text \in {Enveloped(doc), <<"setResponse(", doc, ")">>}

\* The rows of the two versions of the portfolio sheet.
PortfolioRows1 ==
    <<<<[k |-> <<"hyeon", "jang", "myeong">>, v |-> Str(<<"A">>)],
        [k |-> <<"c", "o", "l", "u", "m", "n", "_", "2">>, v |-> Null]>>>>
PortfolioRows2 ==
    <<<<[k |-> <<"hyeon", "jang", "myeong">>, v |-> Str(<<"A">>)],
        [k |-> <<"c", "o", "l", "u", "m", "n", "_", "2">>, v |-> Num(1000)]>>,
      <<[k |-> <<"hyeon", "jang", "myeong">>, v |-> Str(<<"B">>)],
        [k |-> <<"c", "o", "l", "u", "m", "n", "_", "2">>, v |-> Null]>>>>

\* The data state holds the payload of the response wrapping doc.
HoldsPayload(doc) ==
    CASE doc = "DocPortfolio1" -> rows = PortfolioRows1
      [] doc = "DocPortfolio2" -> rows = PortfolioRows2
      [] doc = "DocRoute1" -> table = DetailTable1
      [] doc = "DocRoute2" -> table = DetailTable2

\* C13: fetches of one page overlap without being cancelled or merged: a
\* started load operation is one more request in flight, a request leaves
\* flight only when its own load operation resumes, and whenever the load
\* operation that resumed last resolved with a sheet, the data state (rows,
\* table) is the payload of that response, whichever request was started
\* first.
C13_LastResponseWins ==
    /\ [](settled.t = "settled" /\ ResolvedWithSheet(settled.exchange) =>
            HoldsPayload(WrappedDoc(settled.exchange.text)))
    /\ [][/\ \A request \in inflight :
                request \in inflight' \/ settled'.id = request.id
          /\ issued' # issued =>
                /\ issued' = issued + 1
                /\ Cardinality(inflight') = Cardinality(inflight) + 1
                /\ \E request \in inflight' : request.id = issued']_vars

\* Unit 1's fetch was started first and resolved last, after unit 2's: the
\* table is unit 1's sheet.
C13_Witness ==
    /\ page = UnitDetailPage
    /\ issued = 2
    /\ inflight = {}
    /\ unit = Route2
    /\ error = Null
    /\ settled.t = "settled"
    /\ settled.id = 1
    /\ settled.exchange = Response(200, Enveloped("DocRoute1"))
    /\ table = DetailTable1

\* C14: when no column label contains a site candidate, every row still
\* becomes one unit, and the site of the n-th unit is the fallback label
\* "호실 n".
C14_MissingSiteColumnFallback ==
    ("toPortfolioUnits" \in ran /\ rows # <<>>
        /\ findLikelyColumn(ObjectKeys(rows[1]), SiteKeys) = <<>>) =>
        /\ Len(units) = Len(rows)
        /\ \A n \in 1..Len(units) :
              units[n].site = <<"ho", "sil", " ">> \o NatToString(n)

----------------------------------------------------------------------------
(* The detail-sheet extractor (UnitDetailPage.tsx).  A GvizCell is a       *)
(* record with the raw value v and, when the sheet formats it, the display *)
(* string f; a cell of a row may be null.  Rows and columns count from 0.  *)
(* Tokens of the Hangul syllables in the keywords:                         *)
(*   보 "bo"  증 "jeung"  금 "geum"  월 "wol"  세 "se"  평 "pyeong"          *)
(*   당 "dang"  취 "chwi"  등 "deung"  록 "rok"  기 "gi"  비 "bi"  용 "yong" *)

\* cell?.v
CellV(cell) ==
    IF cell = Null \/ cell = Undefined THEN Undefined
    ELSE IF "v" \in DOMAIN cell THEN cell.v
    ELSE Undefined

\* cellToString(cell)
cellToString(cell) ==
    IF cell = Null \/ cell = Undefined THEN <<>>
    ELSE IF "f" \in DOMAIN cell /\ trim(cell.f) # <<>> THEN trim(cell.f)
    ELSE IF CellV(cell) = Null \/ CellV(cell) = Undefined THEN <<>>
    ELSE trim(String(cell.v))

\* normalize(value) of UnitDetailPage: value.replace(/\s+/g, '').toLowerCase()
normalizeText(value) == toLowerCase(RemoveWhiteSpace(value))

\* rows[r]?.c?.[c] ?? null
CellAt(tbl, r, c) ==
    IF r < 0 \/ r >= Len(tbl.rows) THEN Null
    ELSE IF c < 0 \/ c >= Len(tbl.rows[r + 1].c) THEN Null
    ELSE Coalesce(tbl.rows[r + 1].c[c + 1], Null)

\* findCellByKeyword(table, keyword): the first cell, row by row, whose
\* normalized text includes the normalized keyword.
findCellByKeyword(tbl, keyword) ==
    LET target == normalizeText(keyword)
        hit(r, c) == Includes(normalizeText(cellToString(CellAt(tbl, r, c))), target)
        hitRows == {r \in 0..(Len(tbl.rows) - 1) :
                       \E c \in 0..(Len(tbl.rows[r + 1].c) - 1) : hit(r, c)}
    IN  IF hitRows = {} THEN Null
        ELSE LET r == Min(hitRows)
             IN  [row |-> r,
                  col |-> Min({c \in 0..(Len(tbl.rows[r + 1].c) - 1) : hit(r, c)})]

\* getNumericAt(table, row, col)
getNumericAt(tbl, r, c) ==
    LET cell == CellAt(tbl, r, c)
        fromValue == toNumber(CellV(cell))
    IN  IF fromValue # Null THEN fromValue
        ELSE toNumber(Str(cellToString(cell)))

\* maxDepth = 4
MaxDepth == 4

\* getNumericBelow(table, anchor)
getNumericBelow(tbl, a) ==
    LET found == {offset \in 1..MaxDepth :
                     getNumericAt(tbl, a.row + offset, a.col) # Null}
    IN  IF found = {} THEN Null
        ELSE getNumericAt(tbl, a.row + Min(found), a.col)

\* getRegistrationHeuristic that takes the last number found.
getRegistrationHeuristic_Last(tbl, a) ==
    IF a = Null THEN Null
    ELSE
    LET cells == IF a.row + 1 < Len(tbl.rows) THEN tbl.rows[a.row + 2].c ELSE <<>>
        values == [k \in 1..(Len(cells) - a.col) |->
                      Coalesce(toNumber(CellV(cells[a.col + k])),
                               toNumber(Str(cellToString(cells[a.col + k]))))]
        numbers == SelectSeq(values, LAMBDA x : x # Null)
    IN  IF Len(numbers) = 0 THEN Null ELSE numbers[Len(numbers)]

\* getRegistrationHeuristic(table, anchor)
getRegistrationHeuristic(tbl, a) ==
    IF a = Null THEN Null
    ELSE
    LET cells == IF a.row + 1 < Len(tbl.rows) THEN tbl.rows[a.row + 2].c ELSE <<>>
        values == [k \in 1..(Len(cells) - a.col) |->
                      Coalesce(toNumber(CellV(cells[a.col + k])),
                               toNumber(Str(cellToString(cells[a.col + k]))))]
        numbers == SelectSeq(values, LAMBDA x : x # Null)
    IN  IF Len(numbers) = 0 THEN Null
        ELSE IF Len(numbers) >= 3 THEN numbers[3]
        ELSE numbers[Len(numbers)]

\* '보증금', '월세', '평당월세', '취등록세', '등기비용'
DepositKeyword == <<"bo", "jeung", "geum">>
RentKeyword == <<"wol", "se">>
RentPerPyeongKeyword == <<"pyeong", "dang", "wol", "se">>
AcquisitionTaxKeyword == <<"chwi", "deung", "rok", "se">>
RegistrationKeyword == <<"deung", "gi", "bi", "yong">>

\* c[i] of a row's cells (undefined past the end)
CellIn(cells, i) == IF i < Len(cells) THEN cells[i + 1] ELSE Undefined

\* The scenario built from one row (the callback of rows.filter(..).map(..)).
UnitScenario(c) ==
    [ltv             |-> IF cellToString(CellIn(c, 1)) = <<>> THEN <<"-">>
                         ELSE cellToString(CellIn(c, 1)),
     loanAmount      |-> toNumber(Str(cellToString(CellIn(c, 2)))),
     equity          |-> toNumber(CellV(CellIn(c, 3))),
     deposit         |-> toNumber(CellV(CellIn(c, 4))),
     fixedCost       |-> toNumber(CellV(CellIn(c, 5))),
     investedTotal   |-> toNumber(CellV(CellIn(c, 6))),
     monthlyRent     |-> toNumber(CellV(CellIn(c, 7))),
     monthlyInterest |-> toNumber(CellV(CellIn(c, 8))),
     monthlyNet      |-> toNumber(CellV(CellIn(c, 9))),
     monthlyRoi      |-> toNumber(CellV(CellIn(c, 10))),
     annualProfit    |-> toNumber(CellV(CellIn(c, 11))),
     annualRoi       |-> toNumber(CellV(CellIn(c, 12)))]

\* The filter looking for '%' in the first cell of the row.
IsScenarioRow_FirstColumn(row) == Includes(cellToString(CellIn(row.c, 0)), <<"%">>)

\* rows.filter((row) => cellToString(row.c?.[1]).includes('%'))
IsScenarioRow(row) == Includes(cellToString(CellIn(row.c, 1)), <<"%">>)

\* The scenarios of a table, in table order.
ScenariosOf(tbl) ==
    LET kept == SelectSeq(tbl.rows, IsScenarioRow)
    IN  [k \in 1..Len(kept) |-> UnitScenario(kept[k].c)]

\* parseDetail(table)
parseDetail(tbl) ==
    LET depositLabel        == findCellByKeyword(tbl, DepositKeyword)
        rentLabel           == findCellByKeyword(tbl, RentKeyword)
        rentPerPyeongLabel  == findCellByKeyword(tbl, RentPerPyeongKeyword)
        acquisitionTaxLabel == findCellByKeyword(tbl, AcquisitionTaxKeyword)
        registrationLabel   == findCellByKeyword(tbl, RegistrationKeyword)
        leaseDeposit ==
            IF depositLabel # Null THEN getNumericBelow(tbl, depositLabel)
            ELSE toNumber(Str(cellToString(CellAt(tbl, 8, 1))))
        monthlyRent ==
            IF rentLabel # Null THEN getNumericBelow(tbl, rentLabel)
            ELSE IF depositLabel # Null
                 THEN getNumericAt(tbl, depositLabel.row + 1, depositLabel.col + 1)
            ELSE toNumber(Str(cellToString(CellAt(tbl, 8, 2))))
        monthlyRentPerPyeong ==
            IF rentPerPyeongLabel # Null THEN getNumericBelow(tbl, rentPerPyeongLabel)
            ELSE IF rentLabel # Null
                 THEN getNumericAt(tbl, rentLabel.row + 1, rentLabel.col + 1)
            ELSE IF depositLabel # Null
                 THEN getNumericAt(tbl, depositLabel.row + 1, depositLabel.col + 2)
            ELSE Null
        scenarios == ScenariosOf(tbl)
        registrationFromAcquisitionTax ==
            IF acquisitionTaxLabel # Null THEN getNumericBelow(tbl, acquisitionTaxLabel)
            ELSE Null
        registrationFromScenario ==
            IF Len(scenarios) > 0 THEN scenarios[1].fixedCost ELSE Null
        registrationFallback == getRegistrationHeuristic(tbl, registrationLabel)
    IN  [warningText |-> IF Len(tbl.cols) >= 2
                         THEN Coalesce(tbl.cols[2].label, Str(<<>>))
                         ELSE Str(<<>>),
         building |->
            [supplyAreaPyeong    |-> cellToString(CellAt(tbl, 0, 1)),
             exclusiveAreaPyeong |-> cellToString(CellAt(tbl, 0, 2)),
             exclusiveRatio      |-> toNumber(CellV(CellAt(tbl, 0, 3))),
             landPrice           |-> toNumber(CellV(CellAt(tbl, 0, 4))),
             buildingPrice       |-> toNumber(CellV(CellAt(tbl, 0, 5))),
             pricePerPyeong      |-> toNumber(CellV(CellAt(tbl, 0, 6))),
             supplyAmount        |-> toNumber(CellV(CellAt(tbl, 0, 7))),
             vat                 |-> toNumber(CellV(CellAt(tbl, 0, 8))),
             totalAcquisition    |-> toNumber(CellV(CellAt(tbl, 0, 9)))],
         facility |->
            [hvac     |-> cellToString(CellAt(tbl, 5, 1)),
             interior |-> cellToString(CellAt(tbl, 5, 2))],
         lease |->
            [deposit              |-> leaseDeposit,
             monthlyRent          |-> monthlyRent,
             monthlyRentPerPyeong |-> monthlyRentPerPyeong],
         otherCosts |->
            [registration |->
                Coalesce(registrationFromAcquisitionTax,
                         Coalesce(registrationFromScenario, registrationFallback)),
             brokerage           |-> toNumber(Str(cellToString(CellAt(tbl, 11, 2)))),
             propertyBuildingTax |-> toNumber(Str(cellToString(CellAt(tbl, 12, 1)))),
             propertyLandTax     |-> toNumber(Str(cellToString(CellAt(tbl, 12, 2))))],
         loanInterestLabel |-> cellToString(CellAt(tbl, 14, 2)),
         scenarios |-> scenarios]

----------------------------------------------------------------------------
(* Specification SpecExtract: a detail table is searched for the           *)
(* registration-cost label, then its cells are read by each numeric reader *)
(* and the whole table is parsed.                                          *)

\* Most cells in the row under the label row, and most body rows of a
\* scenario table.
MaxCells == 3
MaxScenarioRows == 3

\* A cell with a raw value only, and one with a display string as well.
Raw(value) == [v |-> value]
Formatted(value, text) == [v |-> value, f |-> text]

Blank == Raw(Null)
DashCell == Raw(Str(<<"-">>))
Seven == Raw(Num(7))
SeventyPercent == Formatted(Ratio(7, 10), <<"7", "0", "%">>)
ThousandWon == Formatted(Null, <<"1", ",", "0", "0", "0", "won">>)
RegistrationLabel == Raw(Str(<<" ", "deung", "gi", " ", "bi", "yong">>))

DetailCols == <<[label |-> Str(<<>>)], [label |-> Str(<<"!">>)]>>

\* The label row: the label in the first column, in the second, or absent.
LabelRows == {<<RegistrationLabel>>, <<Blank, RegistrationLabel>>, <<DashCell>>}

CellPool == {DashCell, Seven, SeventyPercent, ThousandWon}

\* Rows under the label with a null cell, and with five numbers.
FixedRows ==
    {<<Null, Seven, Null, ThousandWon>>,
     <<Raw(Num(1)), Raw(Num(2)), Raw(Num(3)), Raw(Num(4)), Raw(Num(5))>>,
     <<DashCell, Raw(Num(1)), DashCell, Raw(Num(2)), Raw(Num(3)), Raw(Num(4)), Raw(Num(5))>>}

RegistrationTables ==
    {[cols |-> DetailCols, rows |-> <<[c |-> top], [c |-> below]>>] :
        top \in LabelRows, below \in SeqsUpTo(CellPool, MaxCells) \cup FixedRows}

\* The label with the first number 1..5 rows under it.
DepthTables ==
    {[cols |-> DetailCols,
      rows |-> <<[c |-> <<RegistrationLabel>>]>>
               \o [k \in 1..gap |-> [c |-> <<DashCell>>]]
               \o <<[c |-> <<cell>>]>>] :
        gap \in 0..MaxDepth, cell \in {Seven, SeventyPercent, ThousandWon}}

\* A thirteen-column scenario row: the ratio in column 1, then the number
\* 100 * n + k in column k.
ScenarioRow(n) ==
    <<Blank, Formatted(Ratio(n, 10), <<NatToString(n)[1], "0", "%">>)>>
    \o [k \in 1..11 |-> Raw(Num(100 * n + k + 1))]

\* Body rows: three scenario rows, a row with no '%', a row with '%' in its
\* first column only, and a row that ends after the ratio.
BodyRowPool ==
    {ScenarioRow(6), ScenarioRow(7), ScenarioRow(8),
     <<Blank, Raw(Str(<<"L", "T", "V">>)), Seven>>,
     <<Raw(Str(<<"%">>)), Seven, Seven>>,
     <<Blank, Formatted(Ratio(1, 2), <<"5", "0", "%">>)>>}

ScenarioTables ==
    {[cols |-> DetailCols, rows |-> [k \in 1..Len(body) |-> [c |-> body[k]]]] :
        body \in SeqsUpTo(BodyRowPool, MaxScenarioRows)}

ExtractTables == RegistrationTables \cup DepthTables \cup ScenarioTables

ExtractVars == {"ran", "table", "anchor", "numericAt", "numericBelow",
                "registration", "detail"}

ExtractInit ==
    /\ ran = {}
    /\ table \in ExtractTables
    /\ anchor = Unset
    /\ numericAt = Unset
    /\ numericBelow = Unset
    /\ registration = Unset
    /\ detail = Unset
    /\ IdleExcept(ExtractVars)

FindCellByKeyword ==
    /\ ran = {}
    /\ anchor' = findCellByKeyword(table, RegistrationKeyword)
    /\ ran' = {"findCellByKeyword"}
    /\ UNCHANGED <<table, numericAt, numericBelow, registration, detail>>
    /\ FrameExcept(ExtractVars)

\* getNumericAt on a cell of the row under the label row.
GetNumericAt ==
    /\ "findCellByKeyword" \in ran /\ "getNumericAt" \notin ran
    /\ \E c \in 0..(MaxCells - 1) :
          numericAt' = [row |-> 1, col |-> c, value |-> getNumericAt(table, 1, c)]
    /\ ran' = ran \cup {"getNumericAt"}
    /\ UNCHANGED <<table, anchor, numericBelow, registration, detail>>
    /\ FrameExcept(ExtractVars)

\* label !== null ? getNumericBelow(table, label) : ...
GetNumericBelow ==
    /\ "findCellByKeyword" \in ran /\ "getNumericBelow" \notin ran
    /\ anchor # Null
    /\ numericBelow' = getNumericBelow(table, anchor)
    /\ ran' = ran \cup {"getNumericBelow"}
    /\ UNCHANGED <<table, anchor, numericAt, registration, detail>>
    /\ FrameExcept(ExtractVars)

GetRegistrationHeuristic ==
    /\ "findCellByKeyword" \in ran /\ "getRegistrationHeuristic" \notin ran
    /\ registration' = getRegistrationHeuristic(table, anchor)
    /\ ran' = ran \cup {"getRegistrationHeuristic"}
    /\ UNCHANGED <<table, anchor, numericAt, numericBelow, detail>>
    /\ FrameExcept(ExtractVars)

ParseDetail ==
    /\ "findCellByKeyword" \in ran /\ "parseDetail" \notin ran
    /\ detail' = parseDetail(table)
    /\ ran' = ran \cup {"parseDetail"}
    /\ UNCHANGED <<table, anchor, numericAt, numericBelow, registration>>
    /\ FrameExcept(ExtractVars)

ExtractNext ==
    \/ FindCellByKeyword
    \/ GetNumericAt
    \/ GetNumericBelow
    \/ GetRegistrationHeuristic
    \/ ParseDetail

SpecExtract == ExtractInit /\ [][ExtractNext]_vars

\* The number a cell shows: its display string, read as a number.
DisplayedNumber(cell) == toNumber(Str(cellToString(cell)))

\* The cells of the row under the anchor, from the anchor's column on.
RightOfAnchor ==
    LET cells == IF anchor.row + 1 < Len(table.rows)
                 THEN table.rows[anchor.row + 2].c ELSE <<>>
    IN  [k \in 1..(Len(cells) - anchor.col) |-> cells[anchor.col + k]]

\* C15: every numeric read of a cell (getNumericAt, getNumericBelow, the
\* registration heuristic) reads the formatted string f in preference to the
\* raw value v: a cell with v = 0.7 and f = "70%" reads as 70.
C15_FormattedStringPreferred ==
    /\ numericAt # Unset =>
          numericAt.value = DisplayedNumber(CellAt(table, numericAt.row, numericAt.col))
    /\ numericBelow # Unset =>
          LET shown == [k \in 1..MaxDepth |->
                           DisplayedNumber(CellAt(table, anchor.row + k, anchor.col))]
              found == SelectSeq(shown, LAMBDA x : x # Null)
          IN  numericBelow = IF found = <<>> THEN Null ELSE found[1]
    /\ (registration # Unset /\ anchor # Null) =>
          LET shown == SelectSeq([k \in 1..Len(RightOfAnchor) |->
                                     DisplayedNumber(RightOfAnchor[k])],
                                 LAMBDA x : x # Null)
          IN  registration = IF shown = <<>> THEN Null
                             ELSE IF Len(shown) >= 3 THEN shown[3]
                             ELSE shown[Len(shown)]

\* The rows of the table, by position, whose cell in column 1 shows a '%'.
PercentRows ==
    {i \in 1..Len(table.rows) :
        /\ Len(table.rows[i].c) >= 2
        /\ Includes(cellToString(table.rows[i].c[2]), <<"%">>)}

\* The k-th of them in table order.
NthPercentRow(k) ==
    CHOOSE i \in PercentRows : Cardinality({j \in PercentRows : j <= i}) = k

\* What column k of a row's cells gives a scenario: null past the end of the
\* row, the raw number of an unformatted numeric cell, and otherwise one of
\* the two readings of that cell.
FromColumn(value, c, k) ==
    IF k >= Len(c) THEN value = Null
    ELSE IF c[k + 1] = Null THEN value = Null
    ELSE IF "f" \notin DOMAIN c[k + 1] /\ IsNumber(c[k + 1].v) THEN value = c[k + 1].v
    ELSE value \in {toNumber(c[k + 1].v), DisplayedNumber(c[k + 1])}

\* C17: the scenarios parseDetail extracts are exactly the rows whose cell at
\* index 1 shows a '%', in table order; each takes ltv from the display
\* string of column 1 and loanAmount, equity, deposit, fixedCost,
\* investedTotal, monthlyRent, monthlyInterest, monthlyNet, monthlyRoi,
\* annualProfit, annualRoi from columns 2..12 in that order.
C17_ScenarioExtraction ==
    "parseDetail" \in ran =>
        /\ Len(detail.scenarios) = Cardinality(PercentRows)
        /\ \A k \in 1..Len(detail.scenarios) :
              LET c == table.rows[NthPercentRow(k)].c
                  s == detail.scenarios[k]
              IN  /\ s.ltv = cellToString(c[2])
                  /\ FromColumn(s.loanAmount, c, 2)
                  /\ FromColumn(s.equity, c, 3)
                  /\ FromColumn(s.deposit, c, 4)
                  /\ FromColumn(s.fixedCost, c, 5)
                  /\ FromColumn(s.investedTotal, c, 6)
                  /\ FromColumn(s.monthlyRent, c, 7)
                  /\ FromColumn(s.monthlyInterest, c, 8)
                  /\ FromColumn(s.monthlyNet, c, 9)
                  /\ FromColumn(s.monthlyRoi, c, 10)
                  /\ FromColumn(s.annualProfit, c, 11)
                  /\ FromColumn(s.annualRoi, c, 12)

\* A table of three scenario rows (70%, 60%, 80%) was parsed into three
\* scenarios in that order, each field from its own column.
C17_Witness ==
    /\ "parseDetail" \in ran
    /\ table.rows = <<[c |-> ScenarioRow(7)], [c |-> ScenarioRow(6)], [c |-> ScenarioRow(8)]>>
    /\ Len(detail.scenarios) = 3
    /\ detail.scenarios[1].ltv = <<"7", "0", "%">>
    /\ detail.scenarios[1].loanAmount = Num(702)
    /\ detail.scenarios[2].equity = Num(603)
    /\ detail.scenarios[2].fixedCost = Num(605)
    /\ detail.scenarios[3].annualRoi = Num(812)
    /\ detail.otherCosts.registration = Num(705)

\* What the claimed pick gives for the numbers found: the third of three or
\* more, else the last, null for none.
ThirdElseLast(numbers) ==
    IF numbers = <<>> THEN Null
    ELSE IF Len(numbers) >= 3 THEN numbers[3]
    ELSE numbers[Len(numbers)]

\* The numeric readings of the cells right of the anchor, in order: the raw
\* value when it is a number, else the number in the cell's text.
NumbersRightOfAnchor ==
    LET reading(cell) ==
            IF cell = Null THEN Null
            ELSE IF toNumber(cell.v) # Null THEN toNumber(cell.v)
            ELSE DisplayedNumber(cell)
    IN  SelectSeq([k \in 1..Len(RightOfAnchor) |-> reading(RightOfAnchor[k])],
                  LAMBDA x : x # Null)

\* C18: the registration-cost heuristic looks at the row directly below the
\* label row, scans rightward from the label's column collecting the numeric
\* cells, and returns the third number when there are three or more (also
\* when there are five), otherwise the last one found (the second of two),
\* and null when there is none or the label was not found.
C18_RegistrationHeuristic ==
    "getRegistrationHeuristic" \in ran =>
        IF anchor = Null THEN registration = Null
        ELSE registration = ThirdElseLast(NumbersRightOfAnchor)

\* Five numbers 1..5 right of the label in column 1: the third, 3 (the cell
\* under column 0 is not scanned).
C18_Witness ==
    /\ "getRegistrationHeuristic" \in ran
    /\ anchor = [row |-> 0, col |-> 1]
    /\ table.rows[2].c = <<DashCell, Raw(Num(1)), DashCell, Raw(Num(2)), Raw(Num(3)),
                           Raw(Num(4)), Raw(Num(5))>>
    /\ registration = Num(3)

----------------------------------------------------------------------------
(* Specification SpecUnitRows: the portfolio table derives each row's      *)
(* figures from its unit, and the same list is summarised.                 *)

\* The figures of one row of the table (the callback of units.map).
UnitRow(u) ==
    LET equity == IF Positive(OrZero(u.supplyPrice))
                  THEN Minus(OrZero(u.supplyPrice), OrZero(u.loanAmount))
                  ELSE Num(0)
        monthlyNet == Minus(OrZero(u.monthlyRent), OrZero(u.monthlyInterest))
    IN  [link       |-> getUnitDetailBySite(UNIT_DETAIL_ROUTES, u.site),
         equity     |-> equity,
         monthlyNet |-> monthlyNet,
         unitRoe    |-> IF Positive(equity)
                        THEN Over(Times(monthlyNet, Num(12)), equity) ELSE Null]

UnitRowsVars == {"ran", "units", "unitRows"}

UnitRowsInit ==
    /\ units \in SeqsUpTo(SummaryUnitPool, MaxUnits)
    /\ unitRows = Unset
    /\ ran = {}
    /\ IdleExcept(UnitRowsVars)

\* {units.map((unit) => ...)}
RenderUnitRows ==
    /\ "units.map" \notin ran
    /\ unitRows' = [i \in 1..Len(units) |-> UnitRow(units[i])]
    /\ ran' = ran \cup {"units.map"}
    /\ UNCHANGED units
    /\ FrameExcept(UnitRowsVars)

UnitRowsNext == RenderUnitRows

SpecUnitRows == UnitRowsInit /\ [][UnitRowsNext]_vars

\* C16: the figures derived for a unit's table row equal the portfolio
\* formulas applied to that unit alone: its equity, monthly net and annual
\* ROI are totalEquity, monthlyNetCashflow and annualReturnOnEquity of
\* summarizePortfolio([u]).
C16_UnitFiguresMatchPortfolio ==
    "units.map" \in ran =>
        \A i \in 1..Len(units) :
            LET alone == summarizePortfolio(<<units[i]>>)
            IN  /\ unitRows[i].equity = alone.totalEquity
                /\ unitRows[i].monthlyNet = alone.monthlyNetCashflow
                /\ unitRows[i].unitRoe = alone.annualReturnOnEquity

\* C19: in the detail view, a detail table on display was fetched for the
\* selected unit's tab id, also after the route parameter changed from one
\* unit to another while a fetch was in flight and after the new unit's
\* fetch failed.
C19_DetailBelongsToSelectedUnit ==
    (page = UnitDetailPage /\ unit # Null) =>
        LET shown == UnitDetailView(unit, table, loading, error).parsedFrom
        IN  shown # Null =>
                \E doc \in DocsFor([id |-> 0, gid |-> unit.gid]) :
                    shown = Documents[doc].table

\* C20: in either view, while a fetch the view issued has not resolved the
\* view's loading flag is true; in the portfolio view a fetch is started by
\* the refresh action only while loading is false and none is in flight.
C20_LoadingTracksInFlight ==
    /\ []((~MissingConfiguration /\ inflight # {}) => loading = TRUE)
    /\ [][(page = PortfolioPage /\ issued' # issued) =>
              loading = FALSE /\ inflight = {}]_vars

\* The page's fetch function throws on this exchange.
Thrown(exchange) ==
    IF page = PortfolioPage
    THEN fetchGoogleSheetRows(env, exchange).t = "throw"
    ELSE fetchGoogleSheetTableByGid(env, exchange).t = "throw"

\* C21: a fetch that fails, in either view, changes only error and loading:
\* the data state (rows in the portfolio view, table in the detail view) is
\* left as it was, and the data state changes only in a step in which a
\* fetch succeeds.
C21_FailedFetchKeepsData ==
    [][/\ (/\ settled' # settled
           /\ FetchFailed(settled'.exchange) \/ Thrown(settled'.exchange))
          => /\ rows' = rows /\ table' = table
             /\ UNCHANGED <<unit, unitSlug, issued, env, page>>
       /\ (rows' # rows \/ table' # table)
          => /\ settled' # settled
             /\ ~FetchFailed(settled'.exchange)
             /\ ~Thrown(settled'.exchange)]_vars

\* The portfolio page holds the two rows of an earlier refresh after its
\* latest refresh was answered 500.
C21_Witness ==
    /\ page = PortfolioPage
    /\ rows = PortfolioRows2
    /\ settled.t = "settled" /\ settled.id >= 2
    /\ settled.exchange = Response(500, HtmlPage)
    /\ error.t = "str"
    /\ loading = FALSE

----------------------------------------------------------------------------
(* Specification SpecFields: toPortfolioUnits over sheets of one row whose *)
(* header labels vary; the column it resolves for each field is kept.      *)

\* The candidate keywords of every field, by the field's column variable.
FieldKeys ==
    [siteColumn            |-> SiteKeys,
     completionColumn      |-> CompletionKeys,
     supplyColumn          |-> SupplyKeys,
     loanColumn            |-> LoanKeys,
     rateColumn            |-> RateKeys,
     interestColumn        |-> InterestKeys,
     rentColumn            |-> RentKeys,
     contractRenewalColumn |-> ContractRenewalKeys,
     loanRenewalColumn     |-> LoanRenewalKeys,
     ownershipColumn       |-> OwnershipKeys,
     tenantColumn          |-> TenantKeys,
     noteColumn            |-> NoteKeys,
     businessNumberColumn  |-> BusinessNumberKeys,
     buildingTaxColumn     |-> BuildingTaxKeys,
     landTaxColumn         |-> LandTaxKeys,
     trafficChargeColumn   |-> TrafficChargeKeys]

\* const siteColumn = findLikelyColumn(columns, [...]) and the fifteen
\* declarations after it.
ResolvedColumns(cols) ==
    [field \in DOMAIN FieldKeys |-> findLikelyColumn(cols, FieldKeys[field])]

\* Most labels of an enumerated header.
MaxLabels == 3

\* 현장, 임대료, 월세, 입주, 대출금, 이율, 대출이자, "Interest Rate"
FieldLabelPool ==
    {<<"hyeon", "jang">>, <<"im", "dae", "ryo">>, <<"wol", "se">>, <<"ip", "ju">>,
     <<"dae", "chul", "geum">>, <<"i_", "yul">>, <<"dae", "chul", "i_", "ja">>,
     <<"I", "n", "t", "e", "r", "e", "s", "t", " ", "R", "a", "t", "e">>}

\* Headers: the keys of an object are distinct.
FieldHeaders ==
    {h \in SeqsUpTo(FieldLabelPool, MaxLabels) :
        \A i, j \in 1..Len(h) : i # j => h[i] # h[j]}

\* One row under a header: the name "A" in the first cell, 100 * i after it.
FieldSheet(h) ==
    <<[i \in 1..Len(h) |->
          [k |-> h[i], v |-> IF i = 1 THEN Str(<<"A">>) ELSE Num(100 * i)]]>>

FieldsVars == {"ran", "rows", "units", "fieldColumns"}

FieldsInit ==
    /\ rows \in {FieldSheet(h) : h \in FieldHeaders} \cup {<<>>}
    /\ units = Unset
    /\ fieldColumns = Unset
    /\ ran = {}
    /\ IdleExcept(FieldsVars)

\* toPortfolioUnits(rows), with the columns it resolved on the way (none for
\* an empty list, which returns before resolving).
ResolveAndNormalise ==
    /\ "toPortfolioUnits" \notin ran
    /\ ran' = ran \cup {"toPortfolioUnits"}
    /\ fieldColumns' = IF rows = <<>> THEN Null
                       ELSE ResolvedColumns(ObjectKeys(rows[1]))
    /\ units' = toPortfolioUnits(rows)
    /\ UNCHANGED rows
    /\ FrameExcept(FieldsVars)

FieldsNext == ResolveAndNormalise

SpecFields == FieldsInit /\ [][FieldsNext]_vars

\* C22: whenever two different fields of toPortfolioUnits both resolve to a
\* non-empty column they resolve to different columns, so that no sheet
\* column feeds two fields of a unit.
C22_DistinctFieldsDistinctColumns ==
    ("toPortfolioUnits" \in ran /\ fieldColumns # Null) =>
        \A f, g \in DOMAIN FieldKeys :
            (f # g /\ fieldColumns[f] # <<>> /\ fieldColumns[g] # <<>>)
                => fieldColumns[f] # fieldColumns[g]

=============================================================================
